---- MODULE Spec2Model ----
(***************************************************************************)
(* LTDC controller driver (os/hal/platforms/STM32/LTDCv1/stm32_ltdc.c):    *)
(* the driver state machine, the shadow-reload protocol, the wait slot and *)
(* the two interrupt handlers, together with the part of the controller    *)
(* the driver talks to (SRCR, ISR/ICR, IER, GCR).                          *)
(*                                                                         *)
(* Execution model.  Every api function runs inside chSysLock/chSysUnlock, *)
(* so it is atomic up to its suspension points: the chSchDoYieldS polling  *)
(* loops and chSchGoSleepS.  One action models the code between two        *)
(* suspension points.  An interrupt handler preempts the threads and runs  *)
(* to its end before any thread continues; the controller runs             *)
(* asynchronously to both.  A pending, enabled interrupt is served before  *)
(* a thread can enter another driver call.  A failed chDbgAssert halts the *)
(* system (chDbgPanic): it is recorded in fault and nothing runs after it. *)
(*                                                                         *)
(* Client threads are serialised externally, as the driver requires: a     *)
(* driver call is begun only while no other client is executing driver     *)
(* code.  A client parked in the wait slot is suspended, not executing, so *)
(* a call attempted while one is parked is part of the model.              *)
(*                                                                         *)
(* Controller.  The driver source fixes what it writes to and polls from   *)
(* the controller, not what the controller does.  A reload request bit is  *)
(* cleared by the controller when the reload is committed; a vertical      *)
(* blanking reload raises the reload-done flag RRIF; for an immediate      *)
(* reload both outcomes (RRIF raised, RRIF not raised) are modelled.       *)
(***************************************************************************)
EXTENDS Naturals, FiniteSets, Sequences, TLC

\* Number of client threads.
NThreads == 2

Threads == 1..NThreads

\* The NULL thread pointer of the wait slot.
NULL == 0

\* Interrupt sources: enable bit in IER, status flag in ISR, configuration callback.
Sources == {"line", "rr", "fuerr", "terr"}

\* ltdc_state_t
States == {"UNINIT", "STOP", "READY", "ACTIVE"}

\* The callbacks of an LTDCConfig: TRUE when the pointer is non-null.
Configs == [line_isr : BOOLEAN, rr_isr : BOOLEAN, fuerr_isr : BOOLEAN, terr_isr : BOOLEAN]

\* ltdcp->config after ltdcObjectInit.
NoConfig == [line_isr |-> FALSE, rr_isr |-> FALSE, fuerr_isr |-> FALSE, terr_isr |-> FALSE]


----------------------------------------------------------------------------
(* Layer data: timings, windows, frames, register encodings *)

\* The two layer register blocks: LTDC_Layer1 (background), LTDC_Layer2 (foreground).
Layers == {1, 2}

\* "Bg" or "Fg", as in the names of the layer functions and of their assertions.
LayerName(L) == IF L = 1 THEN "Bg" ELSE "Fg"

\* Scalars are naturals; with the inputs of the model none of the uint32_t sums and
\* products of the driver overflows.  U16 is the conversion to uint16_t.
U16(x) == x % 65536

RECURSIVE BitAnd(_, _)
\* The bitwise and of two naturals.
BitAnd(a, b) ==
  IF a = 0 \/ b = 0 THEN 0
  ELSE (a % 2) * (b % 2) + 2 * BitAnd(a \div 2, b \div 2)

\* A 32-bit register value is the pair <<high half, low half>> of its 16-bit halves.
Word(x) == <<(x \div 65536) % 65536, x % 65536>>
And32(p, m) == <<BitAnd(p[1], m[1]), BitAnd(p[2], m[2])>>
Or32(p, q) == <<p[1] + q[1] - BitAnd(p[1], q[1]), p[2] + q[2] - BitAnd(p[2], q[2])>>
AndNot32(p, m) == <<p[1] - BitAnd(p[1], m[1]), p[2] - BitAnd(p[2], m[2])>>

\* x << 16 for a scalar x, as a register value; p >> 16 for a register value p.
Shl16(x) == <<x % 65536, 0>>
Shr16(p) == p[1]

\* p - 3 and p / b on uint32_t, for a register value p.
Sub3(p) ==
  IF p[2] >= 3 THEN <<p[1], p[2] - 3>> ELSE <<(p[1] + 65535) % 65536, p[2] + 65533>>
Div32(p, b) == <<p[1] \div b, ((p[1] % b) * 65536 + p[2]) \div b>>

\* Register field masks of the device header.
LTDC_LxWHPCR_WHSTPOS == <<0, 4095>>
LTDC_LxWHPCR_WHSPPOS == <<65535, 0>>
LTDC_LxWVPCR_WVSTPOS == <<0, 4095>>
LTDC_LxWVPCR_WVSPPOS == <<65535, 0>>
LTDC_LxCFBAR_CFBADD == <<65535, 65535>>
LTDC_LxCFBLR_CFBLL == <<0, 8191>>
LTDC_LxCFBLR_CFBP == <<8191, 0>>
LTDC_LxCFBLNR_CFBLNBR == <<0, 2047>>
LTDC_LxPFCR_PF == <<0, 7>>

\* Limits of the driver header for frame buffers.
LTDC_MIN_FRAME_WIDTH_BYTES == 1
LTDC_MAX_FRAME_WIDTH_BYTES == 8188
LTDC_MIN_FRAME_HEIGHT_LINES == 1
LTDC_MAX_FRAME_HEIGHT_LINES == 2047

\* Pixel format ids: ARGB8888, RGB888, RGB565, ARGB1555, ARGB4444, L8, AL44, AL88.
LTDC_MIN_PIXFMT_ID == 0
LTDC_MAX_PIXFMT_ID == 7
LTDC_FMT_ARGB8888 == 0
LTDC_FMT_RGB888 == 1
LTDC_FMT_RGB565 == 2
LTDC_FMT_ARGB1555 == 3
LTDC_FMT_ARGB4444 == 4
LTDC_FMT_L8 == 5
LTDC_FMT_AL44 == 6
LTDC_FMT_AL88 == 7

\* ltdc_bpp, indexed by pixel format id + 1.
ltdc_bpp == <<32, 24, 16, 16, 16, 8, 8, 16>>

\* The assertion of ltdcBitsPerPixel: the label it fails with, "none" if it holds.
ltdcBitsPerPixelFault(fmt) ==
  IF fmt < LTDC_MAX_PIXFMT_ID THEN "none" ELSE "ltdcBitsPerPixel(), #1"

\* ltdcBitsPerPixel: table lookup.
ltdcBitsPerPixel(fmt) == ltdc_bpp[fmt + 1]

\* ltdcBytesPerPixel of the driver header.
ltdcBytesPerPixel(fmt) == (ltdcBitsPerPixel(fmt) + 7) \div 8

RECURSIVE Pow2(_)
\* 2^n.
Pow2(n) == IF n = 0 THEN 1 ELSE 2 * Pow2(n - 1)

\* p >> n and p << n on uint32_t, for a register value p and 0 <= n < 32.
Shr32(p, n) ==
  IF n >= 16 THEN <<0, p[1] \div Pow2(n - 16)>>
  ELSE <<p[1] \div Pow2(n), ((p[1] % Pow2(n)) * Pow2(16 - n)) + (p[2] \div Pow2(n))>>
Shl32(p, n) ==
  IF n >= 16 THEN <<(p[2] * Pow2(n - 16)) % 65536, 0>>
  ELSE <<((p[1] * Pow2(n)) % 65536) + (p[2] \div Pow2(16 - n)), (p[2] * Pow2(n)) % 65536>>

\* (c & mask) >> n and (c & mask) << n for a mask given by its halves.
MaskShr(c, mh, ml, n) == Shr32(And32(c, <<mh, ml>>), n)
MaskShl(c, mh, ml, n) == Shl32(And32(c, <<mh, ml>>), n)

\* The failure of ltdcFromARGB8888 and of ltdcToARGB8888 for a format outside the
\* switch: the panic message, the assertion label; "none" for a format of the switch.
FromARGB8888Fault(fmt) ==
  IF fmt \in LTDC_FMT_ARGB8888..LTDC_FMT_AL88 THEN "none" ELSE "invalid format"
ToARGB8888Fault(fmt) ==
  IF fmt \in LTDC_FMT_ARGB8888..LTDC_FMT_AL88 THEN "none" ELSE "(), #1"

\* ltdcFromARGB8888: the switch on the target format.
ltdcFromARGB8888(c, fmt) ==
  CASE fmt = LTDC_FMT_ARGB8888 -> c
    [] fmt = LTDC_FMT_RGB888 -> And32(c, <<255, 65535>>)
    [] fmt = LTDC_FMT_RGB565 ->
         Or32(Or32(MaskShr(c, 0, 248, 8 - 5), MaskShr(c, 0, 64512, 16 - 11)),
              MaskShr(c, 248, 0, 24 - 16))
    [] fmt = LTDC_FMT_ARGB1555 ->
         Or32(Or32(MaskShr(c, 0, 248, 8 - 5), MaskShr(c, 0, 63488, 16 - 10)),
              Or32(MaskShr(c, 248, 0, 24 - 15), MaskShr(c, 32768, 0, 32 - 16)))
    [] fmt = LTDC_FMT_ARGB4444 ->
         Or32(Or32(MaskShr(c, 0, 240, 8 - 4), MaskShr(c, 0, 61440, 16 - 8)),
              Or32(MaskShr(c, 240, 0, 24 - 12), MaskShr(c, 61440, 0, 32 - 16)))
    [] fmt = LTDC_FMT_L8 -> And32(c, <<0, 255>>)
    [] fmt = LTDC_FMT_AL44 ->
         Or32(MaskShr(c, 0, 240, 8 - 4), MaskShr(c, 61440, 0, 32 - 8))
    [] fmt = LTDC_FMT_AL88 ->
         Or32(MaskShr(c, 0, 255, 8 - 8), MaskShr(c, 65280, 0, 32 - 16))
    [] OTHER -> <<0, 0>>

\* Mutant of Lane: the low bits of the lane are not filled.
Lane_NoFill(output, c, ml, n, fh, fl) ==
  IF And32(c, <<0, ml>>) # <<0, 0>>
    THEN Or32(output, MaskShl(c, 0, ml, n))
    ELSE output

\* One lane of ltdcToARGB8888: if (c & mask) output |= ((c & mask) << n) | fill.
Lane(output, c, ml, n, fh, fl) ==
  IF And32(c, <<0, ml>>) # <<0, 0>>
    THEN Or32(output, Or32(MaskShl(c, 0, ml, n), <<fh, fl>>))
    ELSE output

\* ltdcToARGB8888: the switch on the source format.
ltdcToARGB8888(c, fmt) ==
  CASE fmt = LTDC_FMT_ARGB8888 -> c
    [] fmt = LTDC_FMT_RGB888 -> Or32(And32(c, <<255, 65535>>), <<65280, 0>>)
    [] fmt = LTDC_FMT_RGB565 ->
         Lane(Lane(Lane(<<65280, 0>>, c, 31, 8 - 5, 0, 7),
                   c, 2016, 16 - 11, 0, 768),
              c, 63488, 24 - 16, 7, 0)
    [] fmt = LTDC_FMT_ARGB1555 ->
         LET rgb == Lane(Lane(Lane(<<0, 0>>, c, 31, 8 - 5, 0, 7),
                              c, 992, 16 - 10, 0, 1792),
                         c, 31744, 24 - 15, 7, 0)
         IN  IF And32(c, <<0, 32768>>) # <<0, 0>> THEN Or32(rgb, <<65280, 0>>) ELSE rgb
    [] fmt = LTDC_FMT_ARGB4444 ->
         Lane(Lane(Lane(Lane(<<0, 0>>, c, 15, 8 - 4, 0, 15),
                        c, 240, 16 - 8, 0, 3840),
                   c, 3840, 24 - 12, 15, 0),
              c, 61440, 32 - 16, 3840, 0)
    [] fmt = LTDC_FMT_L8 -> Or32(And32(c, <<0, 255>>), <<65280, 0>>)
    [] fmt = LTDC_FMT_AL44 ->
         Lane(Lane(<<0, 0>>, c, 15, 8 - 4, 0, 15), c, 240, 32 - 8, 3840, 0)
    [] fmt = LTDC_FMT_AL88 ->
         Or32(MaskShl(c, 0, 255, 8 - 8), MaskShl(c, 0, 65280, 32 - 16))
    [] OTHER -> <<0, 0>>

\* ltdc_invalid_window and ltdc_invalid_frame.
ltdc_invalid_window == [hstart |-> 0, hstop |-> 1, vstart |-> 0, vstop |-> 1]
ltdc_invalid_frame ==
  [bufferp |-> <<0, 0>>, pitch |-> 1, width |-> 1, height |-> 1, fmt |-> LTDC_FMT_L8]

\* The timing fields of an LTDCConfig used for the active window: the panel of the
\* reference configuration and a smaller one.
PanelTiming ==
  [hsync_width |-> 41, hbp_width |-> 2, screen_width |-> 480,
   vsync_height |-> 10, vbp_height |-> 2, screen_height |-> 272]
SmallTiming ==
  [hsync_width |-> 1, hbp_width |-> 1, screen_width |-> 320,
   vsync_height |-> 1, vbp_height |-> 1, screen_height |-> 240]
Timings == {PanelTiming, SmallTiming}

\* The smallest screen ltdcStart accepts, LTDC_MIN_SCREEN_WIDTH by
\* LTDC_MIN_SCREEN_HEIGHT of the driver header, and a timing with that screen.
LTDC_MIN_SCREEN_WIDTH == 1
LTDC_MIN_SCREEN_HEIGHT == 1
MinTiming ==
  [hsync_width |-> 1, hbp_width |-> 1, screen_width |-> LTDC_MIN_SCREEN_WIDTH,
   vsync_height |-> 1, vbp_height |-> 1, screen_height |-> LTDC_MIN_SCREEN_HEIGHT]

\* The timing fields before any configuration is stored.
NoTiming ==
  [hsync_width |-> 0, hbp_width |-> 0, screen_width |-> 0,
   vsync_height |-> 0, vbp_height |-> 0, screen_height |-> 0]

\* The registers of a layer block after the peripheral reset.
ResetRegs ==
  [CR |-> {}, WHPCR |-> <<0, 0>>, WVPCR |-> <<0, 0>>, PFCR |-> <<0, 0>>,
   CFBAR |-> <<0, 0>>, CFBLR |-> <<0, 0>>, CFBLNR |-> <<0, 0>>, CLUTWR |-> <<0, 0>>,
   DCCR |-> <<0, 0>>, CKCR |-> <<0, 0>>, CACR |-> <<0, 255>>, BFCR |-> <<0, 1543>>]

\* No layer call yet.
NoCall == [op |-> "none"]

----------------------------------------------------------------------------

\* Bytes given to the panel as command or data, and the longest chunk moved.
PanelBytes == {0, 42, 255}
MaxChunk == 2

\* No SPI transfer in flight, and no panel operation called yet.
SpiIdle == [dir |-> "idle", n |-> 0, data |-> <<>>, dcx |-> "unset"]
NoPanelCall == [op |-> "none", from |-> "STOP"]

\* ILI9341D1 after ili9341ObjectInit, with the chip select line deasserted, the
\* D/CX line not driven yet and the SPI endpoint idle.
PanelObject ==
  [state |-> "STOP", configured |-> FALSE, value |-> 0, cs |-> FALSE, cslog |-> <<>>,
   dcx |-> "unset", spi |-> SpiIdle, call |-> NoPanelCall]

VARIABLES
  timing,     \* the timing fields of *ltdcp->config
  active_window, \* ltdcp->active_window
  lreg,       \* lreg[L]: the registers of layer block L, as written and read back
  live,       \* live[L]: the register values of layer block L the controller displays
  call,       \* the last layer setter called and its argument
  dirty,      \* a layer register was written after the last reload request
  useWait,    \* LTDC_USE_WAIT of the build
  state,      \* ltdcp->state
  config,     \* *ltdcp->config (the callbacks)
  configured, \* ltdcp->config != NULL
  thread,     \* ltdcp->thread, the wait slot
  gcr,        \* LTDC->GCR as the set of its flags that are set
  ier,        \* LTDC->IER as the set of enabled sources
  isr,        \* LTDC->ISR as the set of raised sources
  srcr,       \* LTDC->SRCR as the set of pending reload requests
  nvic,       \* the event and error vectors are enabled
  pc,         \* pc[t]: where client thread t is inside the driver
  rdymsg,     \* rdymsg[t]: tp->p_u.rdymsg, the message of a wake-up not yet consumed
  hpc,        \* position of the running interrupt handler, "none" when none runs
  fault,      \* the chDbgAssert that halted the system, "none" when none did
  quiet,      \* no reload requested by the application, no line or error event raised
  panel       \* ILI9341D1, its chip select, D/CX line and SPI endpoint

vars == <<timing, active_window, lreg, live, call, dirty,
          useWait, state, config, configured, thread, gcr, ier, isr, srcr, nvic,
          pc, rdymsg, hpc, fault, quiet, panel>>

lay == <<timing, active_window, lreg, live, call, dirty>>

hw == <<gcr, ier, isr, srcr, nvic>>
drv == <<state, config, configured, thread>>

TypeOK ==
  /\ useWait \in BOOLEAN
  /\ state \in States
  /\ config \in Configs
  /\ configured \in BOOLEAN
  /\ thread \in Threads \cup {NULL}
  /\ gcr \subseteq {"LTDCEN", "DTEN"}
  /\ ier \subseteq Sources
  /\ isr \subseteq Sources
  /\ srcr \subseteq {"IMR", "VBR"}
  /\ nvic \in BOOLEAN
  /\ pc \in [Threads -> {"idle", "spi", "start_1", "start_2", "start_3", "stop_poll",
                         "stop_fin", "reload_poll", "parked", "resumed",
                         "halt_ltdcStart", "halt_ltdcStop", "halt_ltdcStartReload",
                         "halt_ltdcReload"}]
  /\ rdymsg \in [Threads -> {"none", "RDY_OK"}]
  /\ fault \in STRING
  /\ quiet \in BOOLEAN
  /\ panel.state \in {"STOP", "READY", "ACTIVE"}
  /\ panel.configured \in BOOLEAN
  /\ panel.cs \in BOOLEAN
  /\ panel.cslog \in {<<>>, <<TRUE>>, <<FALSE>>, <<TRUE, FALSE>>}
  /\ panel.dcx \in {"unset", "low", "high"}
  /\ panel.value \in 0..255
  /\ panel.spi.dir \in {"idle", "send", "receive"}
  /\ panel.spi.dcx \in {"unset", "low", "high"}
  /\ panel.spi.n \in 0..MaxChunk
  /\ panel.call.from \in {"STOP", "READY", "ACTIVE"}
  /\ timing \in Timings \cup {MinTiming, NoTiming}
  /\ \A c \in {"hstart", "hstop", "vstart", "vstop"} : active_window[c] \in 0..65535
  /\ DOMAIN lreg = Layers
  /\ DOMAIN live = Layers
  /\ \A L \in Layers : lreg[L].CR \subseteq {"LEN", "COLKEN", "CLUTEN"}
  /\ \A L \in Layers : \A w \in {"WHPCR", "WVPCR", "PFCR", "CFBAR", "CFBLR", "CFBLNR",
                                   "CLUTWR", "DCCR", "CKCR", "CACR", "BFCR"} :
        /\ lreg[L][w] \in (0..65535) \X (0..65535)
        /\ live[L][w] \in (0..65535) \X (0..65535)
  /\ call.op \in {"none", "ltdcSetWindow", "ltdcSetFrame", "ltdcEnable", "ltdcDisable",
                  "ltdcSetPaletteColor", "ltdcSetPalette", "arg", "ltdcBitsPerPixel",
                  "ltdcFromARGB8888", "ltdcToARGB8888", "ltdcSetInvalidWindow",
                  "ltdcSetEnableFlags", "ltdcSetPixelFormat", "ltdcSetKeyingColor",
                  "ltdcSetConstantAlpha", "ltdcSetDefaultColor",
                  "ltdcSetBlendingFactors", "ltdcSetFrameAddress", "ltdcSetConfig"}
  /\ dirty \in BOOLEAN

\* The state of the statically allocated LTDCD1 and of the controller at reset.
Init ==
  /\ timing = NoTiming
  /\ active_window = ltdc_invalid_window
  /\ lreg = [L \in Layers |-> ResetRegs]
  /\ live = [L \in Layers |-> ResetRegs]
  /\ call = NoCall
  /\ dirty = FALSE
  /\ useWait \in BOOLEAN
  /\ state = "UNINIT"
  /\ config = NoConfig
  /\ configured = FALSE
  /\ thread = NULL
  /\ gcr = {}
  /\ ier = {}
  /\ isr = {}
  /\ srcr = {}
  /\ nvic = FALSE
  /\ pc = [t \in Threads |-> "idle"]
  /\ rdymsg = [t \in Threads |-> "none"]
  /\ hpc = "none"
  /\ fault = "none"
  /\ quiet = TRUE
  /\ panel = PanelObject

----------------------------------------------------------------------------
(* Layer register operations *)

\* LTDC_MAX_PALETTE_LENGTH of the driver header.
LTDC_MAX_PALETTE_LENGTH == 256

\* Mutant of StartActiveWindow: the stops are taken one past the last visible pixel.
StartActiveWindow_StopPast(tm) ==
  [hstart |-> U16(tm.hsync_width + tm.hbp_width),
   vstart |-> U16(tm.vsync_height + tm.vbp_height),
   hstop  |-> U16(tm.hsync_width + tm.hbp_width + tm.screen_width),
   vstop  |-> U16(tm.vsync_height + tm.vbp_height + tm.screen_height)]

\* Mutant of StartActiveWindow: the stops are taken one short of the last visible
\* pixel.
StartActiveWindow_StopShort(tm) ==
  [hstart |-> U16(tm.hsync_width + tm.hbp_width),
   vstart |-> U16(tm.vsync_height + tm.vbp_height),
   hstop  |-> U16(tm.hsync_width + tm.hbp_width + tm.screen_width - 2),
   vstop  |-> U16(tm.vsync_height + tm.vbp_height + tm.screen_height - 2)]

\* The active window ltdcStart caches for timings tm (hsync_width and vsync_height
\* at least 1, as its range assertions require); the fields are uint16_t.
StartActiveWindow(tm) ==
  LET hacc1 == (tm.hsync_width - 1) + tm.hbp_width
      vacc1 == (tm.vsync_height - 1) + tm.vbp_height
  IN  [hstart |-> U16(hacc1 + 1),
       vstart |-> U16(vacc1 + 1),
       hstop  |-> U16(hacc1 + tm.screen_width),
       vstop  |-> U16(vacc1 + tm.screen_height)]

\* The absolute coordinates ltdcBgSetWindowI/ltdcFgSetWindowI compute for window W.
WindowStartH(W, aw) == W.hstart + aw.hstart
WindowStopH(W, aw) == W.hstop + aw.hstart
WindowStartV(W, aw) == W.vstart + aw.vstart
WindowStopV(W, aw) == W.vstop + aw.vstart

\* The assertions of the window setter of layer L, in order: the label of the first
\* that fails, "none" if all hold.
SetWindowFault(L, W, tm, aw) ==
  LET at(n) == "ltdc" \o LayerName(L) \o "SetWindowI(), #" \o n
  IN  IF ~(W.hstop < tm.screen_width) THEN at("11")
      ELSE IF ~(W.vstop < tm.screen_height) THEN at("12")
      ELSE IF ~(WindowStartH(W, aw) >= aw.hstart) THEN at("21")
      ELSE IF ~(WindowStopH(W, aw) <= aw.hstop) THEN at("22")
      ELSE IF ~(WindowStartV(W, aw) >= aw.vstart) THEN at("31")
      ELSE IF ~(WindowStopV(W, aw) <= aw.vstop) THEN at("32")
      ELSE "none"

\* The value the window setter writes to WHPCR, to WVPCR.
WindowWHPCR(W, aw) ==
  Or32(And32(Word(WindowStartH(W, aw)), LTDC_LxWHPCR_WHSTPOS),
       And32(Shl16(WindowStopH(W, aw)), LTDC_LxWHPCR_WHSPPOS))
WindowWVPCR(W, aw) ==
  Or32(And32(Word(WindowStartV(W, aw)), LTDC_LxWVPCR_WVSTPOS),
       And32(Shl16(WindowStopV(W, aw)), LTDC_LxWVPCR_WVSPPOS))

\* ltdcBgSetWindowI/ltdcFgSetWindowI on the registers r of layer L: WHPCR is written
\* once the horizontal assertions hold, WVPCR once the vertical ones hold.
ltdcSetWindowI(L, r, W, tm, aw) ==
  LET f == SetWindowFault(L, W, tm, aw)
      at(n) == "ltdc" \o LayerName(L) \o "SetWindowI(), #" \o n
  IN  IF f \in {at("11"), at("12"), at("21"), at("22")} THEN r
      ELSE IF f # "none" THEN [r EXCEPT !.WHPCR = WindowWHPCR(W, aw)]
      ELSE [r EXCEPT !.WHPCR = WindowWHPCR(W, aw), !.WVPCR = WindowWVPCR(W, aw)]

\* ltdcBgGetWindowI/ltdcFgGetWindowI on the registers r.
ltdcGetWindowI(r) ==
  [hstart |-> And32(r.WHPCR, LTDC_LxWHPCR_WHSTPOS)[2],
   hstop  |-> Shr16(And32(r.WHPCR, LTDC_LxWHPCR_WHSPPOS)),
   vstart |-> And32(r.WVPCR, LTDC_LxWVPCR_WVSTPOS)[2],
   vstop  |-> Shr16(And32(r.WVPCR, LTDC_LxWVPCR_WVSPPOS))]

\* The line size the frame setter computes (size_t).
FrameLineSize(F) == ltdcBytesPerPixel(F.fmt) * F.width

\* The assertions a frame setter of layer L meets, in order: those of the pixel
\* format setter, the one of ltdcBitsPerPixel, then its own.
SetFrameFault(L, F, tm) ==
  LET at(n) == "ltdc" \o LayerName(L) \o "SetFrameI(), #" \o n
      pf(n) == "ltdc" \o LayerName(L) \o "SetPixelFormatI(), #" \o n
  IN  IF ~(F.fmt >= LTDC_MIN_PIXFMT_ID) THEN pf("2")
      ELSE IF ~(F.fmt <= LTDC_MAX_PIXFMT_ID) THEN pf("3")
      ELSE IF ltdcBitsPerPixelFault(F.fmt) # "none" THEN ltdcBitsPerPixelFault(F.fmt)
      ELSE IF ~(F.width <= tm.screen_width) THEN at("1")
      ELSE IF ~(F.height <= tm.screen_height) THEN at("2")
      ELSE IF ~(FrameLineSize(F) >= LTDC_MIN_FRAME_WIDTH_BYTES) THEN at("3")
      ELSE IF ~(FrameLineSize(F) <= LTDC_MAX_FRAME_WIDTH_BYTES) THEN at("4")
      ELSE IF ~(F.height >= LTDC_MIN_FRAME_HEIGHT_LINES) THEN at("5")
      ELSE IF ~(F.height <= LTDC_MAX_FRAME_HEIGHT_LINES) THEN at("6")
      ELSE IF ~(F.pitch >= FrameLineSize(F)) THEN at("7")
      ELSE "none"

\* ltdcBgSetPixelFormatI/ltdcFgSetPixelFormatI: the PF field of PFCR is replaced.
SetPixelFormatPFCR(r, fmt) ==
  Or32(AndNot32(r.PFCR, LTDC_LxPFCR_PF), And32(Word(fmt), LTDC_LxPFCR_PF))

\* ltdcBgSetFrameI/ltdcFgSetFrameI on the registers r of layer L: the pixel format
\* is written once its own assertions hold, the frame registers once all hold.
ltdcSetFrameI(L, r, F, tm) ==
  LET f == SetFrameFault(L, F, tm)
      pf(n) == "ltdc" \o LayerName(L) \o "SetPixelFormatI(), #" \o n
  IN  IF f \in {pf("2"), pf("3")} THEN r
      ELSE IF f # "none" THEN [r EXCEPT !.PFCR = SetPixelFormatPFCR(r, F.fmt)]
      ELSE [r EXCEPT !.PFCR = SetPixelFormatPFCR(r, F.fmt),
                     !.CFBAR = And32(F.bufferp, LTDC_LxCFBAR_CFBADD),
                     !.CFBLR = Or32(And32(Shl16(F.pitch), LTDC_LxCFBLR_CFBP),
                                    And32(Word(FrameLineSize(F) + 3),
                                          LTDC_LxCFBLR_CFBLL)),
                     !.CFBLNR = And32(Word(F.height), LTDC_LxCFBLNR_CFBLNBR)]

\* ltdcBgGetPixelFormatI/ltdcFgGetPixelFormatI on the registers r.
ltdcGetPixelFormatI(r) == And32(r.PFCR, LTDC_LxPFCR_PF)[2]

\* ltdcBgGetFrameI/ltdcFgGetFrameI on the registers r, into the caller's descriptor
\* out: bufferp, pitch, width and height are stored, fmt is left as it was.
ltdcGetFrameI(r, out) ==
  [bufferp |-> And32(r.CFBAR, LTDC_LxCFBAR_CFBADD),
   pitch   |-> Shr16(And32(r.CFBLR, LTDC_LxCFBLR_CFBP)),
   width   |-> Div32(Sub3(And32(r.CFBLR, LTDC_LxCFBLR_CFBLL)),
                     ltdcBytesPerPixel(ltdcGetPixelFormatI(r)))[2],
   height  |-> And32(r.CFBLNR, LTDC_LxCFBLNR_CFBLNBR)[2],
   fmt     |-> out.fmt]

\* The enable bits of the layer control register CR.
LayerFlags == {"LEN", "COLKEN", "CLUTEN"}

\* ltdcBgIsEnabledI/ltdcFgIsEnabledI on the registers r: (CR & ~LTDC_LxCR_LEN) != 0.
ltdcIsEnabledI(r) == r.CR \ {"LEN"} # {}

\* ltdcBgIsPaletteEnabledI/ltdcFgIsPaletteEnabledI: (CR & ~LTDC_LxCR_CLUTEN) != 0.
ltdcIsPaletteEnabledI(r) == r.CR \ {"CLUTEN"} # {}

\* ltdcBgIsKeyingEnabledI/ltdcFgIsKeyingEnabledI: (CR & ~LTDC_LxCR_COLKEN) != 0.
ltdcIsKeyingEnabledI(r) == r.CR \ {"COLKEN"} # {}

\* CR |= bit, CR &= ~bit of the enable and disable functions.
SetFlag(r, bit) == [r EXCEPT !.CR = @ \cup {bit}]
ClearFlag(r, bit) == [r EXCEPT !.CR = @ \ {bit}]

\* Entry i of the colour array given to the palette setters (ltdc_color_t, the top
\* byte not zero).
PaletteColor(i) == <<65280 + (i % 256), (i * 257) % 65536>>

\* The word written to CLUTWR for a slot and a colour:
\* ((uint32_t)slot << 24) | (c & 0x00FFFFFF).
ClutWord(slot, c) == Or32(<<(slot % 256) * 256, 0>>, And32(c, <<255, 65535>>))

\* The assertions of ltdcBgSetPaletteColorI/ltdcFgSetPaletteColorI.
SetPaletteColorFault(L, r) ==
  IF ltdcIsEnabledI(r) THEN "ltdc" \o LayerName(L) \o "SetPaletteColorI(), #1"
  ELSE "none"

\* ltdcBgSetPaletteColorI/ltdcFgSetPaletteColorI on the registers r of layer L.
ltdcSetPaletteColorI(L, r, slot, c) ==
  IF SetPaletteColorFault(L, r) # "none" THEN r
  ELSE [r EXCEPT !.CLUTWR = ClutWord(slot, c)]

\* The assertions of ltdcBgSetPaletteI/ltdcFgSetPaletteI, in order.
SetPaletteFault(L, r, length) ==
  IF ~(length <= LTDC_MAX_PALETTE_LENGTH)
    THEN "ltdc" \o LayerName(L) \o "SetPaletteI(), #1"
  ELSE IF ltdcIsEnabledI(r) THEN "ltdc" \o LayerName(L) \o "SetPaletteI(), #2"
  ELSE "none"

\* ltdcBgSetPaletteI/ltdcFgSetPaletteI on the registers r of layer L, for the first
\* length entries of the colour array: CLUTWR is written once per entry and keeps
\* the last word.
ltdcSetPaletteI(L, r, length) ==
  IF SetPaletteFault(L, r, length) # "none" \/ length = 0 THEN r
  ELSE [r EXCEPT !.CLUTWR = ClutWord(length - 1, PaletteColor(length - 1))]

\* Field masks of the device header for CACR and BFCR; black, and the blending
\* factors of the default layer specification, of the driver header.
LTDC_LxCACR_CONSTA == <<0, 255>>
LTDC_LxBFCR_BF == <<0, 1799>>
LTDC_COLOR_BLACK == <<65280, 0>>
LTDC_BLEND_FIX1_FIX2 == <<0, 1029>>

\* ltdcBgSetEnableFlagsI/ltdcFgSetEnableFlagsI: the enable bits of CR are replaced.
ltdcSetEnableFlagsI(r, flags) == [r EXCEPT !.CR = flags \cap LayerFlags]

\* The assertions of ltdcBgSetPixelFormatI/ltdcFgSetPixelFormatI.
SetPixelFormatFault(L, fmt) ==
  IF ~(fmt >= LTDC_MIN_PIXFMT_ID) THEN "ltdc" \o LayerName(L) \o "SetPixelFormatI(), #2"
  ELSE IF ~(fmt <= LTDC_MAX_PIXFMT_ID)
    THEN "ltdc" \o LayerName(L) \o "SetPixelFormatI(), #3"
  ELSE "none"

\* ltdcBgSetPixelFormatI/ltdcFgSetPixelFormatI on the registers r of layer L.
ltdcSetPixelFormatI(L, r, fmt) ==
  IF SetPixelFormatFault(L, fmt) # "none" THEN r
  ELSE [r EXCEPT !.PFCR = SetPixelFormatPFCR(r, fmt)]

\* ltdcBgSetKeyingColorI/ltdcFgSetKeyingColorI: the low 24 bits of CKCR are replaced.
ltdcSetKeyingColorI(r, c) ==
  [r EXCEPT !.CKCR = Or32(AndNot32(@, <<255, 65535>>), And32(c, <<255, 65535>>))]

\* ltdcBgSetConstantAlphaI/ltdcFgSetConstantAlphaI, for a uint8_t a.
ltdcSetConstantAlphaI(r, a) ==
  [r EXCEPT !.CACR = Or32(AndNot32(@, LTDC_LxCACR_CONSTA),
                          And32(Word(a % 256), LTDC_LxCACR_CONSTA))]

\* ltdcBgSetDefaultColorI/ltdcFgSetDefaultColorI.
ltdcSetDefaultColorI(r, c) == [r EXCEPT !.DCCR = c]

\* ltdcBgSetBlendingFactorsI/ltdcFgSetBlendingFactorsI.
ltdcSetBlendingFactorsI(r, bf) ==
  [r EXCEPT !.BFCR = Or32(AndNot32(@, LTDC_LxBFCR_BF), And32(bf, LTDC_LxBFCR_BF))]

\* ltdcBgSetFrameAddressI/ltdcFgSetFrameAddressI.
ltdcSetFrameAddressI(r, bufferp) == [r EXCEPT !.CFBAR = bufferp]

\* ltdc_default_laycfg; the palette is given by its length, the flags by the set of
\* enable bits.
ltdc_default_laycfg ==
  [frame |-> ltdc_invalid_frame, window |-> ltdc_invalid_window,
   def_color |-> LTDC_COLOR_BLACK, const_alpha |-> 0, key_color |-> LTDC_COLOR_BLACK,
   pal_length |-> 0, blending |-> LTDC_BLEND_FIX1_FIX2, flags |-> {}, null |-> FALSE]

\* The null pointer given as layer specification, and the specification
\* ltdcBgSetConfigI/ltdcFgSetConfigI uses for the pointer cfgp.
NullLaycfg == [null |-> TRUE]
Laycfg(cfgp) == IF cfgp.null THEN ltdc_default_laycfg ELSE cfgp

\* The registers of layer L after the colour, alpha and blending setters of
\* ltdcBgSetConfigI/ltdcFgSetConfigI, r being those the window setter left.
ConfigColors(r, c) ==
  ltdcSetBlendingFactorsI(
    ltdcSetConstantAlphaI(
      ltdcSetKeyingColorI(ltdcSetDefaultColorI(r, c.def_color), c.key_color),
      c.const_alpha),
    c.blending)

\* The assertions ltdcBgSetConfigI/ltdcFgSetConfigI meets on the registers r of
\* layer L, in order: those of the frame setter, of the window setter and, for a
\* palette that is not empty, of the palette setter.
SetConfigFault(L, r, cfgp, tm, aw) ==
  LET c == Laycfg(cfgp)
  IN  IF SetFrameFault(L, c.frame, tm) # "none" THEN SetFrameFault(L, c.frame, tm)
      ELSE IF SetWindowFault(L, c.window, tm, aw) # "none"
        THEN SetWindowFault(L, c.window, tm, aw)
      ELSE IF c.pal_length > 0 THEN SetPaletteFault(L, r, c.pal_length)
      ELSE "none"

\* ltdcBgSetConfigI/ltdcFgSetConfigI on the registers r of layer L: frame, window,
\* default colour, keying colour, constant alpha, blending factors, palette, enable
\* flags; a failed assertion stops the sequence there.
ltdcSetConfigI(L, r, cfgp, tm, aw) ==
  LET c == Laycfg(cfgp)
      r1 == ltdcSetFrameI(L, r, c.frame, tm)
      r2 == ltdcSetWindowI(L, r1, c.window, tm, aw)
      r3 == ConfigColors(r2, c)
      r4 == IF c.pal_length > 0 THEN ltdcSetPaletteI(L, r3, c.pal_length) ELSE r3
  IN  IF SetFrameFault(L, c.frame, tm) # "none" THEN r1
      ELSE IF SetWindowFault(L, c.window, tm, aw) # "none" THEN r2
      ELSE IF SetConfigFault(L, r, cfgp, tm, aw) # "none" THEN r3
      ELSE ltdcSetEnableFlagsI(r4, c.flags)

\* The layer registers after ltdcBgSetConfigI/ltdcFgSetConfigI with a null
\* descriptor: the default specification.
DefaultLayerRegs(L, r, tm, aw) == ltdcSetConfigI(L, r, NullLaycfg, tm, aw)

\* The first assertion that fails in ltdcStart while the two layers are loaded with
\* the default specification, "none" if none does.
DefaultLayerFault(tm, aw) ==
  LET ff(L) == SetFrameFault(L, ltdc_invalid_frame, tm)
      wf(L) == SetWindowFault(L, ltdc_invalid_window, tm, aw)
  IN  IF ff(1) # "none" THEN ff(1)
      ELSE IF wf(1) # "none" THEN wf(1)
      ELSE IF ff(2) # "none" THEN ff(2)
      ELSE wf(2)

\* The layer registers ltdcStart leaves: the background layer is loaded first and
\* a failed assertion stops the loading.
StartLayerRegs(regs, tm, aw) ==
  LET bgf == IF SetFrameFault(1, ltdc_invalid_frame, tm) # "none"
               THEN TRUE
               ELSE SetWindowFault(1, ltdc_invalid_window, tm, aw) # "none"
  IN  [L \in Layers |->
         IF L = 2 /\ bgf THEN regs[L] ELSE DefaultLayerRegs(L, regs[L], tm, aw)]

----------------------------------------------------------------------------
(* Scheduling *)

Running == fault = "none"

\* A thread is between the two assignments of one critical section.
Locked == \E t \in Threads : pc[t] = "stop_fin"

\* An enabled vector has a raised and enabled source.
EvPending == nvic /\ ({"line", "rr"} \cap isr \cap ier) # {}
ErPending == nvic /\ ({"fuerr", "terr"} \cap isr \cap ier) # {}

\* Thread t may enter a driver call.
CanCall(t) ==
  /\ Running
  /\ hpc = "none"
  /\ ~EvPending /\ ~ErPending
  /\ pc[t] = "idle"
  /\ \A u \in Threads : pc[u] \in {"idle", "parked"}

\* Thread t, suspended at p inside a call, may continue.
CanStep(t, p) ==
  /\ Running
  /\ hpc = "none"
  /\ pc[t] = p

\* A chDbgAssert fails in an interrupt handler: the system halts.
Panic(label) ==
  /\ fault' = label
  /\ UNCHANGED <<lay, useWait, panel, state, config, configured, thread, gcr, ier, isr, srcr,
                 nvic, pc, rdymsg, hpc, quiet>>

\* A chDbgAssert fails in thread t before the call has changed anything: the system
\* halts with t inside the call.
CallPanic(t, halt, label) ==
  /\ fault' = label
  /\ pc' = [pc EXCEPT ![t] = halt]
  /\ UNCHANGED <<lay, useWait, panel, state, config, configured, thread, gcr, ier, isr, srcr,
                 nvic, rdymsg, hpc, quiet>>

----------------------------------------------------------------------------
(* Controller *)

\* ltdcIsReloadingI: either reload request is still pending.
ltdcIsReloadingI == srcr \cap {"IMR", "VBR"} # {}

\* The controller commits an immediate reload: IMR is cleared, the written layer
\* registers become the displayed ones, RRIF may be raised.
HwReloadImmediate ==
  /\ Running
  /\ "IMR" \in srcr
  /\ srcr' = srcr \ {"IMR"}
  /\ \/ isr' = isr \cup {"rr"}
     \/ isr' = isr
  /\ live' = lreg
  /\ UNCHANGED <<timing, active_window, lreg, call, dirty>>
  /\ UNCHANGED <<useWait, panel, drv, gcr, ier, nvic, pc, rdymsg, hpc, fault, quiet>>

\* The controller commits a vertical blanking reload: VBR is cleared, the written
\* layer registers become the displayed ones, RRIF is raised.
HwReloadVblank ==
  /\ Running
  /\ "VBR" \in srcr
  /\ srcr' = srcr \ {"VBR"}
  /\ isr' = isr \cup {"rr"}
  /\ live' = lreg
  /\ UNCHANGED <<timing, active_window, lreg, call, dirty>>
  /\ UNCHANGED <<useWait, panel, drv, gcr, ier, nvic, pc, rdymsg, hpc, fault, quiet>>

\* The running controller raises a line, FIFO underrun or transfer error flag.
HwEvent(s) ==
  /\ Running
  /\ "LTDCEN" \in gcr
  /\ s \notin isr
  /\ isr' = isr \cup {s}
  /\ quiet' = FALSE
  /\ UNCHANGED <<lay, useWait, panel, drv, gcr, ier, srcr, nvic, pc, rdymsg, hpc, fault>>

----------------------------------------------------------------------------
(* Lifecycle *)

\* ltdcInit: peripheral reset, ltdcObjectInit, state STOP.
ltdcInit ==
  /\ Running
  /\ state = "UNINIT"
  /\ \A t \in Threads : pc[t] = "idle"
  /\ state' = "STOP"
  /\ config' = NoConfig
  /\ configured' = FALSE
  /\ thread' = NULL
  /\ gcr' = {} /\ ier' = {} /\ isr' = {} /\ srcr' = {}
  /\ active_window' = ltdc_invalid_window
  /\ lreg' = [L \in Layers |-> ResetRegs]
  /\ live' = [L \in Layers |-> ResetRegs]
  /\ dirty' = FALSE
  /\ UNCHANGED <<timing, call, useWait, panel, nvic, pc, rdymsg, hpc, fault, quiet>>

\* Mutant of StartIerFlags: every source is enabled, whatever the callbacks.
StartIerFlags_AllSources(cfg) == Sources

\* The interrupt-enable mask ltdcStart programs for configuration cfg.
StartIerFlags(cfg) ==
  {"rr"} \cup (IF cfg.line_isr THEN {"line"} ELSE {})
         \cup (IF cfg.fuerr_isr THEN {"fuerr"} ELSE {})
         \cup (IF cfg.terr_isr THEN {"terr"} ELSE {})

\* ltdcStart up to the first polling loop: checks, controller and interrupts off,
\* first forced reload requested.
ltdcStart(t, cfg, tm) ==
  /\ CanCall(t)
  /\ IF state # "STOP"
       THEN CallPanic(t, "halt_ltdcStart", "ltdcStart(), #1")
       ELSE /\ config' = cfg
            /\ timing' = tm
            /\ configured' = TRUE
            /\ gcr' = {}
            /\ ier' = {}
            /\ srcr' = srcr \cup {"IMR"}
            /\ dirty' = FALSE
            /\ pc' = [pc EXCEPT ![t] = "start_1"]
            /\ UNCHANGED <<active_window, lreg, live, call>>
            /\ UNCHANGED <<useWait, panel, state, thread, isr, nvic, rdymsg, hpc, fault, quiet>>

\* ltdcStart from the end of the first forced reload: timings, active window, flags
\* and layers (default specification) are programmed, the vectors and the interrupt
\* sources enabled, second forced reload.  An assertion that fails while the layers
\* are loaded halts the system there.
ltdcStart_1(t) ==
  /\ CanStep(t, "start_1")
  /\ ~ltdcIsReloadingI
  /\ active_window' = StartActiveWindow(timing)
  /\ lreg' = StartLayerRegs(lreg, timing, active_window')
  /\ fault' = DefaultLayerFault(timing, active_window')
  /\ IF fault' = "none"
       THEN /\ gcr' = {}
            /\ nvic' = TRUE
            /\ ier' = StartIerFlags(config)
            /\ srcr' = srcr \cup {"IMR"}
            /\ dirty' = FALSE
            /\ pc' = [pc EXCEPT ![t] = "start_2"]
       ELSE /\ gcr' = {}
            /\ dirty' = TRUE
            /\ pc' = [pc EXCEPT ![t] = "halt_ltdcStart"]
            /\ UNCHANGED <<nvic, ier, srcr>>
  /\ UNCHANGED <<timing, live, call, useWait, panel, drv, isr, rdymsg, hpc, quiet>>

\* Mutant of ltdcStart_2: the controller is turned on without waiting for the end
\* of the second forced reload.
ltdcStart_2_NoWait(t) ==
  /\ CanStep(t, "start_2")
  /\ gcr' = gcr \cup {"LTDCEN"}
  /\ srcr' = srcr \cup {"IMR"}
  /\ pc' = [pc EXCEPT ![t] = "start_3"]
  /\ dirty' = FALSE
  /\ UNCHANGED <<timing, active_window, lreg, live, call>>
  /\ UNCHANGED <<useWait, panel, drv, ier, isr, nvic, rdymsg, hpc, fault, quiet>>

\* ltdcStart from the end of the second forced reload: controller on, third reload.
ltdcStart_2(t) ==
  /\ CanStep(t, "start_2")
  /\ ~ltdcIsReloadingI
  /\ gcr' = gcr \cup {"LTDCEN"}
  /\ srcr' = srcr \cup {"IMR"}
  /\ pc' = [pc EXCEPT ![t] = "start_3"]
  /\ dirty' = FALSE
  /\ UNCHANGED <<timing, active_window, lreg, live, call>>
  /\ UNCHANGED <<useWait, panel, drv, ier, isr, nvic, rdymsg, hpc, fault, quiet>>

\* ltdcStart from the end of the third forced reload to its return.
ltdcStart_3(t) ==
  /\ CanStep(t, "start_3")
  /\ ~ltdcIsReloadingI
  /\ state' = "READY"
  /\ pc' = [pc EXCEPT ![t] = "idle"]
  /\ UNCHANGED <<lay, useWait, panel, config, configured, thread, hw, rdymsg, hpc, fault, quiet>>

\* Mutant of StopGcr: the controller-enable bit is left as it is.
StopGcr_KeepEnable == gcr

\* ltdcStop clears the controller-enable bit of GCR.
StopGcr == gcr \ {"LTDCEN"}

\* ltdcStop up to its polling loop: state check, controller and interrupts off,
\* immediate reload started (through ltdcReloadS when waiting is compiled in).
ltdcStop(t) ==
  /\ CanCall(t)
  /\ IF state # "READY"
       THEN CallPanic(t, "halt_ltdcStop", "ltdcStop(), #1")
       ELSE /\ gcr' = StopGcr
            /\ ier' = {}
            /\ state' = "ACTIVE"
            /\ srcr' = srcr \cup {"IMR"}
            /\ IF useWait /\ thread # NULL
                 THEN fault' = "ltdcReloadS(), #1"
                      /\ pc' = [pc EXCEPT ![t] = "halt_ltdcStop"]
                 ELSE fault' = fault /\ pc' = [pc EXCEPT ![t] = "stop_poll"]
            /\ dirty' = FALSE
            /\ UNCHANGED <<timing, active_window, lreg, live, call>>
            /\ UNCHANGED <<useWait, panel, config, configured, thread, isr, nvic, rdymsg,
                           hpc, quiet>>

\* ltdcStop at the end of its polling loop.  With waiting compiled in the loop is
\* the one of ltdcReloadS (IMR only), which then sets READY; without, the loop
\* polls ltdcIsReloadingI and ltdcStop sets STOP and returns.
ltdcStop_poll(t) ==
  /\ CanStep(t, "stop_poll")
  /\ IF useWait
       THEN /\ "IMR" \notin srcr
            /\ state' = "READY"
            /\ pc' = [pc EXCEPT ![t] = "stop_fin"]
       ELSE /\ ~ltdcIsReloadingI
            /\ state' = "STOP"
            /\ pc' = [pc EXCEPT ![t] = "idle"]
  /\ UNCHANGED <<lay, useWait, panel, config, configured, thread, hw, rdymsg, hpc, fault, quiet>>

\* ltdcStop after ltdcReloadS has returned: state STOP, return.
ltdcStop_fin(t) ==
  /\ CanStep(t, "stop_fin")
  /\ state' = "STOP"
  /\ pc' = [pc EXCEPT ![t] = "idle"]
  /\ UNCHANGED <<lay, useWait, panel, config, configured, thread, hw, rdymsg, hpc, fault, quiet>>

----------------------------------------------------------------------------
(* Reload protocol *)

\* Mutant of ReloadBit: no request bit is written to SRCR.
ReloadBit_None(immediately) == "none"

\* The reload request bit of SRCR for the kind of reload.
ReloadBit(immediately) == IF immediately THEN "IMR" ELSE "VBR"

\* Mutant of StartReloadIFault: the state assertion is compiled out.
StartReloadIFault_Unchecked == "none"

\* The state assertion of ltdcStartReloadI: the label it fails with, "none" if it holds.
StartReloadIFault == IF state # "READY" THEN "ltdcStartReloadI(), #1" ELSE "none"

\* Mutant of ReloadSFault: the assertions are compiled out.
ReloadSFault_Unchecked == "none"

\* The assertions a call of ltdcReloadS meets, in order: the one of ltdcStartReloadI,
\* then, with waiting compiled in, the one on the wait slot.
ReloadSFault ==
  IF state # "READY" THEN "ltdcStartReloadI(), #1"
  ELSE IF useWait /\ thread # NULL THEN "ltdcReloadS(), #1"
  ELSE "none"

\* ltdcStartReload: state ACTIVE, reload requested, returns at once.
ltdcStartReload(t, immediately) ==
  /\ CanCall(t)
  /\ IF StartReloadIFault # "none"
       THEN CallPanic(t, "halt_ltdcStartReload", StartReloadIFault)
       ELSE /\ state' = "ACTIVE"
            /\ srcr' = srcr \cup {ReloadBit(immediately)}
            /\ quiet' = FALSE
            /\ dirty' = FALSE
            /\ UNCHANGED <<timing, active_window, lreg, live, call>>
            /\ UNCHANGED <<useWait, panel, config, configured, thread, gcr, ier, isr, nvic,
                           pc, rdymsg, hpc, fault>>

\* Mutant of ltdcReload: with waiting compiled in the caller sleeps in the wait slot
\* for an immediate reload too.
ltdcReload_ParkAlways(t, immediately) ==
  /\ CanCall(t)
  /\ IF ReloadSFault = "ltdcStartReloadI(), #1"
       THEN CallPanic(t, "halt_ltdcReload", ReloadSFault)
       ELSE /\ state' = "ACTIVE"
            /\ srcr' = srcr \cup {ReloadBit(immediately)}
            /\ quiet' = FALSE
            /\ fault' = ReloadSFault
            /\ IF ReloadSFault # "none"
                 THEN /\ thread' = thread
                      /\ pc' = [pc EXCEPT ![t] = "halt_ltdcReload"]
                 ELSE IF useWait
                        THEN /\ thread' = t
                             /\ pc' = [pc EXCEPT ![t] = "parked"]
                        ELSE /\ thread' = thread
                             /\ pc' = [pc EXCEPT ![t] = "reload_poll"]
            /\ dirty' = FALSE
            /\ UNCHANGED <<timing, active_window, lreg, live, call>>
            /\ UNCHANGED <<useWait, panel, config, configured, gcr, ier, isr, nvic, rdymsg,
                           hpc>>

\* ltdcReload up to its suspension point: ltdcStartReloadI, then the polling loop
\* (immediate reload, or waiting not compiled in) or the wait slot and sleep.
ltdcReload(t, immediately) ==
  /\ CanCall(t)
  /\ IF ReloadSFault = "ltdcStartReloadI(), #1"
       THEN CallPanic(t, "halt_ltdcReload", ReloadSFault)
       ELSE /\ state' = "ACTIVE"
            /\ srcr' = srcr \cup {ReloadBit(immediately)}
            /\ quiet' = FALSE
            /\ fault' = ReloadSFault
            /\ IF ReloadSFault # "none"
                 THEN /\ thread' = thread
                      /\ pc' = [pc EXCEPT ![t] = "halt_ltdcReload"]
                 ELSE IF useWait /\ ~immediately
                        THEN /\ thread' = t
                             /\ pc' = [pc EXCEPT ![t] = "parked"]
                        ELSE /\ thread' = thread
                             /\ pc' = [pc EXCEPT ![t] = "reload_poll"]
            /\ dirty' = FALSE
            /\ UNCHANGED <<timing, active_window, lreg, live, call>>
            /\ UNCHANGED <<useWait, panel, config, configured, gcr, ier, isr, nvic, rdymsg,
                           hpc>>

\* ltdcReload at the end of its polling loop, which polls IMR: state READY, return.
ltdcReload_poll(t) ==
  /\ CanStep(t, "reload_poll")
  /\ "IMR" \notin srcr
  /\ state' = "READY"
  /\ pc' = [pc EXCEPT ![t] = "idle"]
  /\ UNCHANGED <<lay, useWait, panel, config, configured, thread, hw, rdymsg, hpc, fault, quiet>>

\* ltdcReload after the sleeping thread has been made ready: it returns.
ltdcReload_resume(t) ==
  /\ CanStep(t, "resumed")
  /\ pc' = [pc EXCEPT ![t] = "idle"]
  /\ rdymsg' = [rdymsg EXCEPT ![t] = "none"]
  /\ UNCHANGED <<lay, useWait, panel, drv, hw, hpc, fault, quiet>>

----------------------------------------------------------------------------
(* Line interrupt enable *)

ltdcEnableLineInterrupt(t) ==
  /\ CanCall(t)
  /\ ier' = ier \cup {"line"}
  /\ UNCHANGED <<lay, useWait, panel, drv, gcr, isr, srcr, nvic, pc, rdymsg, hpc, fault, quiet>>

ltdcDisableLineInterrupt(t) ==
  /\ CanCall(t)
  /\ ier' = ier \ {"line"}
  /\ UNCHANGED <<lay, useWait, panel, drv, gcr, isr, srcr, nvic, pc, rdymsg, hpc, fault, quiet>>

----------------------------------------------------------------------------
(* Global enable flags *)

\* LTDC_EF_MASK of the driver header: the flags of the LTDC_EF_* group, which are
\* the bits of GCR of the same meaning; LTDC_EF_ENABLE is LTDC_GCR_LTDCEN,
\* LTDC_EF_DITHER is LTDC_GCR_DTEN, the others are the four polarity bits.
LTDC_EF_MASK == {"LTDCEN", "DTEN", "PCPOL", "DEPOL", "VSPOL", "HSPOL"}

\* ltdcSetEnableFlags: GCR is overwritten with the flags.
ltdcGlobalSetEnableFlags(t, flags) ==
  /\ CanCall(t)
  /\ gcr' = flags \cap LTDC_EF_MASK
  /\ UNCHANGED <<lay, useWait, panel, drv, ier, isr, srcr, nvic, pc, rdymsg, hpc, fault, quiet>>

\* ltdcEnableDithering: the dithering bit of GCR is set.
ltdcEnableDithering(t) ==
  /\ CanCall(t)
  /\ gcr' = gcr \cup {"DTEN"}
  /\ UNCHANGED <<lay, useWait, panel, drv, ier, isr, srcr, nvic, pc, rdymsg, hpc, fault, quiet>>

\* ltdcDisableDithering: the dithering bit of GCR is cleared.
ltdcDisableDithering(t) ==
  /\ CanCall(t)
  /\ gcr' = gcr \ {"DTEN"}
  /\ UNCHANGED <<lay, useWait, panel, drv, ier, isr, srcr, nvic, pc, rdymsg, hpc, fault, quiet>>

----------------------------------------------------------------------------
(* Layer operations (api class): one critical section each *)

\* Mutant of LayerCall: the setter writes the registers of both layer blocks.
LayerCall_BothBlocks(t, L, c, f, r) ==
  /\ CanCall(t)
  /\ configured
  /\ call' = c
  /\ fault' = f
  /\ lreg' = [K \in Layers |-> r]
  /\ dirty' = (dirty \/ f = "none" \/ r # lreg[L])
  /\ UNCHANGED <<timing, active_window, live>>
  /\ UNCHANGED <<useWait, panel, drv, hw, pc, rdymsg, hpc, quiet>>

\* A layer setter called by thread t on layer L: it is recorded as c, fails with f
\* ("none" when no assertion fails) and leaves the registers r in the layer block.
\* The window and frame setters read ltdcp->config, which must have been stored.
LayerCall(t, L, c, f, r) ==
  /\ CanCall(t)
  /\ configured
  /\ call' = c
  /\ fault' = f
  /\ lreg' = [lreg EXCEPT ![L] = r]
  /\ dirty' = (dirty \/ f = "none" \/ r # lreg[L])
  /\ UNCHANGED <<timing, active_window, live>>
  /\ UNCHANGED <<useWait, panel, drv, hw, pc, rdymsg, hpc, quiet>>

\* ltdcBgSetWindow, ltdcFgSetWindow.
ltdcSetWindow(t, L, W) ==
  LayerCall(t, L, [op |-> "ltdcSetWindow", layer |-> L, window |-> W],
            SetWindowFault(L, W, timing, active_window),
            ltdcSetWindowI(L, lreg[L], W, timing, active_window))

\* ltdcBgSetFrame, ltdcFgSetFrame.
ltdcSetFrame(t, L, F) ==
  LayerCall(t, L, [op |-> "ltdcSetFrame", layer |-> L, frame |-> F],
            SetFrameFault(L, F, timing),
            ltdcSetFrameI(L, lreg[L], F, timing))

\* ltdcBgEnable, ltdcBgEnablePalette, ltdcBgEnableKeying and their foreground
\* twins: the bit is set in CR.
ltdcEnableFlag(t, L, bit) ==
  LayerCall(t, L, [op |-> "ltdcEnable", layer |-> L, bit |-> bit], "none",
            SetFlag(lreg[L], bit))

\* ltdcBgDisable, ltdcBgDisablePalette, ltdcBgDisableKeying and their foreground
\* twins: the bit is cleared in CR.
ltdcDisableFlag(t, L, bit) ==
  LayerCall(t, L, [op |-> "ltdcDisable", layer |-> L, bit |-> bit], "none",
            ClearFlag(lreg[L], bit))

\* ltdcBgSetPaletteColor, ltdcFgSetPaletteColor.
ltdcSetPaletteColor(t, L, slot, c) ==
  LayerCall(t, L, [op |-> "ltdcSetPaletteColor", layer |-> L, slot |-> slot,
                   color |-> c],
            SetPaletteColorFault(L, lreg[L]),
            ltdcSetPaletteColorI(L, lreg[L], slot, c))

\* ltdcBgSetPalette, ltdcFgSetPalette.
ltdcSetPalette(t, L, length) ==
  LayerCall(t, L, [op |-> "ltdcSetPalette", layer |-> L, length |-> length],
            SetPaletteFault(L, lreg[L], length),
            ltdcSetPaletteI(L, lreg[L], length))

\* ltdcBgSetInvalidWindow, ltdcFgSetInvalidWindow: the window setter is given
\* ltdc_invalid_window.
ltdcSetInvalidWindow(t, L) ==
  LayerCall(t, L, [op |-> "ltdcSetInvalidWindow", layer |-> L],
            SetWindowFault(L, ltdc_invalid_window, timing, active_window),
            ltdcSetWindowI(L, lreg[L], ltdc_invalid_window, timing, active_window))

\* ltdcBgSetEnableFlags, ltdcFgSetEnableFlags.
ltdcSetEnableFlags(t, L, flags) ==
  LayerCall(t, L, [op |-> "ltdcSetEnableFlags", layer |-> L, flags |-> flags], "none",
            ltdcSetEnableFlagsI(lreg[L], flags))

\* ltdcBgSetPixelFormat, ltdcFgSetPixelFormat.
ltdcSetPixelFormat(t, L, fmt) ==
  LayerCall(t, L, [op |-> "ltdcSetPixelFormat", layer |-> L, fmt |-> fmt],
            SetPixelFormatFault(L, fmt),
            ltdcSetPixelFormatI(L, lreg[L], fmt))

\* ltdcBgSetKeyingColor, ltdcFgSetKeyingColor.
ltdcSetKeyingColor(t, L, c) ==
  LayerCall(t, L, [op |-> "ltdcSetKeyingColor", layer |-> L, color |-> c], "none",
            ltdcSetKeyingColorI(lreg[L], c))

\* ltdcBgSetConstantAlpha, ltdcFgSetConstantAlpha.
ltdcSetConstantAlpha(t, L, a) ==
  LayerCall(t, L, [op |-> "ltdcSetConstantAlpha", layer |-> L, alpha |-> a], "none",
            ltdcSetConstantAlphaI(lreg[L], a))

\* ltdcBgSetDefaultColor, ltdcFgSetDefaultColor.
ltdcSetDefaultColor(t, L, c) ==
  LayerCall(t, L, [op |-> "ltdcSetDefaultColor", layer |-> L, color |-> c], "none",
            ltdcSetDefaultColorI(lreg[L], c))

\* ltdcBgSetBlendingFactors, ltdcFgSetBlendingFactors.
ltdcSetBlendingFactors(t, L, bf) ==
  LayerCall(t, L, [op |-> "ltdcSetBlendingFactors", layer |-> L, blending |-> bf],
            "none", ltdcSetBlendingFactorsI(lreg[L], bf))

\* ltdcBgSetFrameAddress, ltdcFgSetFrameAddress.
ltdcSetFrameAddress(t, L, bufferp) ==
  LayerCall(t, L, [op |-> "ltdcSetFrameAddress", layer |-> L, bufferp |-> bufferp],
            "none", ltdcSetFrameAddressI(lreg[L], bufferp))

\* ltdcBgSetConfig, ltdcFgSetConfig.
ltdcSetConfig(t, L, cfgp) ==
  LayerCall(t, L, [op |-> "ltdcSetConfig", layer |-> L, cfgp |-> cfgp],
            SetConfigFault(L, lreg[L], cfgp, timing, active_window),
            ltdcSetConfigI(L, lreg[L], cfgp, timing, active_window))

\* A call of a helper function, which touches neither the driver nor the controller:
\* the call c with its result is recorded, f is the assertion it fails, if any.
HelperCall(t, c, f) ==
  /\ CanCall(t)
  /\ call.op \in {"arg", "ltdcFromARGB8888"}
  /\ call' = c
  /\ fault' = f
  /\ UNCHANGED <<timing, active_window, lreg, live, dirty>>
  /\ UNCHANGED <<useWait, panel, drv, hw, pc, rdymsg, hpc, quiet>>

\* ltdcBitsPerPixel(fmt) for the format of the argument drawn.
CallBitsPerPixel(t) ==
  /\ call.op = "arg"
  /\ HelperCall(t, [op |-> "ltdcBitsPerPixel", fmt |-> call.fmt,
                    result |-> IF call.fmt \in LTDC_MIN_PIXFMT_ID..LTDC_MAX_PIXFMT_ID
                                 THEN ltdcBitsPerPixel(call.fmt) ELSE 0],
                ltdcBitsPerPixelFault(call.fmt))

\* ltdcFromARGB8888(c, fmt) for the colour and the format of the argument drawn.
CallFromARGB8888(t) ==
  /\ call.op = "arg"
  /\ HelperCall(t, [op |-> "ltdcFromARGB8888", color |-> call.color, fmt |-> call.fmt,
                    result |-> ltdcFromARGB8888(call.color, call.fmt)],
                FromARGB8888Fault(call.fmt))

\* ltdcToARGB8888(c, fmt) for the raw colour of the argument drawn, or for the raw
\* colour ltdcFromARGB8888 has just returned.
CallToARGB8888(t) ==
  LET c == IF call.op = "arg" THEN call.color ELSE call.result
  IN  HelperCall(t, [op |-> "ltdcToARGB8888", color |-> c, fmt |-> call.fmt,
                     result |-> ltdcToARGB8888(c, call.fmt)],
                 ToARGB8888Fault(call.fmt))

----------------------------------------------------------------------------
(* Interrupt handlers *)

\* The callback of source s in the configuration is non-null.
HasCallback(s) ==
  CASE s = "line"  -> config.line_isr
    [] s = "rr"    -> config.rr_isr
    [] s = "fuerr" -> config.fuerr_isr
    [] s = "terr"  -> config.terr_isr

\* Mutant of Raised: the branch is guarded by the status flag alone.
Raised_FlagOnly(s) == s \in isr

\* The test that guards a handler branch: status flag and enable bit both set.
Raised(s) == s \in isr /\ s \in ier

\* A handler is entered: an enabled vector is pending and no critical section is open.
IrqEnter(pending, first) ==
  /\ Running
  /\ hpc = "none"
  /\ ~Locked
  /\ pending
  /\ hpc' = first
  /\ UNCHANGED <<lay, useWait, panel, drv, hw, pc, rdymsg, fault, quiet>>

\* A branch whose callback must be non-null: the flag test, the assertion on the
\* callback and the call.
IrqBranch(at, s, label, skip) ==
  /\ Running
  /\ hpc = at
  /\ IF Raised(s)
       THEN IF HasCallback(s)
              THEN /\ hpc' = at \o "_cb"
                   /\ UNCHANGED <<lay, useWait, panel, drv, hw, pc, rdymsg, fault, quiet>>
              ELSE Panic(label)
       ELSE /\ hpc' = skip
            /\ UNCHANGED <<lay, useWait, panel, drv, hw, pc, rdymsg, fault, quiet>>

\* The callback of source s has returned: its flag is cleared through ICR.
IrqClear(at, s, next) ==
  /\ Running
  /\ hpc = at
  /\ isr' = isr \ {s}
  /\ hpc' = next
  /\ UNCHANGED <<lay, useWait, panel, drv, gcr, ier, srcr, nvic, pc, rdymsg, fault, quiet>>

EvEnter == IrqEnter(EvPending, "ev_line")
EvLine == IrqBranch("ev_line", "line", "LTDC_EV_IRQHandler(), #1", "ev_rr")
EvLineClear == IrqClear("ev_line_cb", "line", "ev_rr")

\* The reload-done branch: the flag test and the optional callback.
EvRr ==
  /\ Running
  /\ hpc = "ev_rr"
  /\ IF Raised("rr")
       THEN IF HasCallback("rr")
              THEN hpc' = "ev_rr_cb"
              ELSE hpc' = "ev_rr_lock"
       ELSE hpc' = "none"
  /\ UNCHANGED <<lay, useWait, panel, drv, hw, pc, rdymsg, fault, quiet>>

\* The reload callback returns.
EvRrReturn ==
  /\ Running
  /\ hpc = "ev_rr_cb"
  /\ hpc' = "ev_rr_lock"
  /\ UNCHANGED <<lay, useWait, panel, drv, hw, pc, rdymsg, fault, quiet>>

\* Mutant of Ready: the thread taken from the wait slot is not made ready.
Ready_NotWoken(p, tp) == p

\* chSchReadyI(tp): the threads' positions after tp has been made ready.
Ready(p, tp) == [p EXCEPT ![tp] = "resumed"]

\* Mutant of EvRrLock: the thread is made ready and the state is left for later.
EvRrLock_WakeOnly ==
  /\ Running
  /\ hpc = "ev_rr_lock"
  /\ IF state # "ACTIVE"
       THEN Panic("LTDC_EV_IRQHandler(), #2")
       ELSE /\ IF useWait /\ thread # NULL
                 THEN /\ thread' = NULL
                      /\ rdymsg' = [rdymsg EXCEPT ![thread] = "RDY_OK"]
                      /\ pc' = Ready(pc, thread)
                 ELSE UNCHANGED <<thread, rdymsg, pc>>
            /\ hpc' = "ev_rr_clr"
            /\ UNCHANGED <<lay, useWait, panel, state, config, configured, hw, fault,
                           quiet>>

\* The critical section of the reload-done branch: state assertion, wake-up of the
\* thread in the wait slot, state READY.
EvRrLock ==
  /\ Running
  /\ hpc = "ev_rr_lock"
  /\ IF state # "ACTIVE"
       THEN Panic("LTDC_EV_IRQHandler(), #2")
       ELSE /\ IF useWait /\ thread # NULL
                 THEN /\ thread' = NULL
                      /\ rdymsg' = [rdymsg EXCEPT ![thread] = "RDY_OK"]
                      /\ pc' = Ready(pc, thread)
                 ELSE UNCHANGED <<thread, rdymsg, pc>>
            /\ state' = "READY"
            /\ hpc' = "ev_rr_clr"
            /\ UNCHANGED <<lay, useWait, panel, config, configured, hw, fault, quiet>>

EvRrClear == IrqClear("ev_rr_clr", "rr", "none")

ErEnter == IrqEnter(ErPending, "er_fuerr")
ErFuerr == IrqBranch("er_fuerr", "fuerr", "LTDC_ER_IRQHandler(), #1", "er_terr")
ErFuerrClear == IrqClear("er_fuerr_cb", "fuerr", "er_terr")
ErTerr == IrqBranch("er_terr", "terr", "LTDC_ER_IRQHandler(), #2", "none")
ErTerrClear == IrqClear("er_terr_cb", "terr", "none")

----------------------------------------------------------------------------
(* Panel driver (ILI9341), 4-wire half-duplex interface mode *)

\* Thread t may call the panel driver: no call of its own is open and the SPI
\* endpoint is idle, the caller of a transfer being suspended until its end and
\* the clients excluding each other.
CanCallPanel(t) ==
  /\ Running
  /\ hpc = "none"
  /\ pc[t] = "idle"
  /\ panel.spi.dir = "idle"

\* The panel driver as an operation finds it: cslog, the levels the operation has
\* driven on the chip select line, is empty.
Called == [panel EXCEPT !.cslog = <<>>]

\* spiSelectI, spiUnselectI on the panel driver p: the slave select line of the SPI
\* endpoint is asserted, deasserted.
spiSelectI(p) == [p EXCEPT !.cs = TRUE, !.cslog = Append(@, TRUE)]
spiUnselectI(p) == [p EXCEPT !.cs = FALSE, !.cslog = Append(@, FALSE)]

\* A chDbgAssert of the panel driver fails in the operation op: the system halts
\* with the driver, the lines and the SPI endpoint as they were.
PanelPanic(op, label) ==
  /\ fault' = label
  /\ panel' = [Called EXCEPT !.call = [op |-> op, from |-> panel.state]]
  /\ UNCHANGED <<lay, useWait, drv, hw, pc, rdymsg, hpc, quiet>>

\* The operation op of the panel driver returns, leaving the driver as p.
PanelReturn(op, p) ==
  /\ panel' = [p EXCEPT !.call = [op |-> op, from |-> panel.state]]
  /\ UNCHANGED <<lay, useWait, drv, hw, pc, rdymsg, hpc, fault, quiet>>

\* Mutant of ili9341Start: the chip select line is asserted and left so.
ili9341Start_SelectOnly(t) ==
  /\ CanCallPanel(t)
  /\ IF panel.state # "STOP"
       THEN PanelPanic("ili9341Start", "ili9341Start(), #1")
       ELSE PanelReturn("ili9341Start",
                        [spiSelectI(Called) EXCEPT
                           !.configured = TRUE, !.state = "READY"])

\* ili9341Start: the state assertion, a pulse on the chip select line (select,
\* then unselect), the configuration stored, READY.
ili9341Start(t) ==
  /\ CanCallPanel(t)
  /\ IF panel.state # "STOP"
       THEN PanelPanic("ili9341Start", "ili9341Start(), #1")
       ELSE PanelReturn("ili9341Start",
                        [spiUnselectI(spiSelectI(Called)) EXCEPT
                           !.configured = TRUE, !.state = "READY"])

\* Mutant of ili9341Stop: the driver is stopped whatever its state.
ili9341Stop_AnyState(t) ==
  /\ CanCallPanel(t)
  /\ PanelReturn("ili9341Stop", [Called EXCEPT !.state = "STOP"])

\* ili9341Stop: the state assertion (labelled "ili9341Start(), #1" in the code),
\* STOP.
ili9341Stop(t) ==
  /\ CanCallPanel(t)
  /\ IF panel.state # "READY"
       THEN PanelPanic("ili9341Stop", "ili9341Start(), #1")
       ELSE PanelReturn("ili9341Stop", [Called EXCEPT !.state = "STOP"])

\* ili9341Select: the state assertion, ACTIVE, chip select asserted.
ili9341Select(t) ==
  /\ CanCallPanel(t)
  /\ IF panel.state # "READY"
       THEN PanelPanic("ili9341Select", "ili9341SelectI(), #1")
       ELSE PanelReturn("ili9341Select",
                        spiSelectI([Called EXCEPT !.state = "ACTIVE"]))

\* ili9341Unselect: the state assertion, chip select deasserted, READY.
ili9341Unselect(t) ==
  /\ CanCallPanel(t)
  /\ IF panel.state # "ACTIVE"
       THEN PanelPanic("ili9341Unselect", "ili9341UnselectI(), #1")
       ELSE PanelReturn("ili9341Unselect",
                        [spiUnselectI(Called) EXCEPT !.state = "READY"])

\* Mutant of TransferFault: the transfer operations accept READY too.
TransferFault_ReadyToo(op) ==
  IF panel.state \notin {"READY", "ACTIVE"} THEN op \o "(), #1" ELSE "none"

\* The state assertion of the transfer operation op.
TransferFault(op) ==
  IF panel.state # "ACTIVE" THEN op \o "(), #1" ELSE "none"

\* Mutant of DcxLevel: every transfer operation sets the pad.
DcxLevel_Set(op) == "high"

\* The level the transfer operation op drives on the D/CX line: palClearPad in
\* ili9341WriteCommand, palSetPad in the others.
DcxLevel(op) == IF op = "ili9341WriteCommand" THEN "low" ELSE "high"

\* A transfer operation op called by thread t with argument arg: the state
\* assertion; then the scratch byte is stored (store), the D/CX line driven and
\* the transfer of the bytes data in direction dir started, the caller suspended
\* until it ends; a chunk of no bytes returns at once.
Transfer(t, op, arg, store, dir, data) ==
  /\ CanCallPanel(t)
  /\ IF TransferFault(op) # "none"
       THEN /\ fault' = TransferFault(op)
            /\ panel' = [Called EXCEPT !.call = [op |-> op, from |-> panel.state,
                                                arg |-> arg]]
            /\ UNCHANGED pc
       ELSE IF Len(data) = 0
         THEN /\ panel' = [Called EXCEPT !.call = [op |-> op, from |-> panel.state,
                                                  arg |-> arg]]
              /\ UNCHANGED <<pc, fault>>
         ELSE /\ panel' = [Called EXCEPT
                             !.call = [op |-> op, from |-> panel.state, arg |-> arg],
                             !.value = IF store THEN arg ELSE @,
                             !.dcx = DcxLevel(op),
                             !.spi = [dir |-> dir, n |-> Len(data),
                                      data |-> IF store THEN <<arg>> ELSE data,
                                      dcx |-> DcxLevel(op)]]
              /\ pc' = [pc EXCEPT ![t] = "spi"]
              /\ UNCHANGED fault
  /\ UNCHANGED <<lay, useWait, drv, hw, rdymsg, hpc, quiet>>

\* ili9341WriteCommand(cmd), ili9341WriteByte(value).
ili9341WriteCommand(t, cmd) ==
  Transfer(t, "ili9341WriteCommand", cmd % 256, TRUE, "send", <<cmd % 256>>)
ili9341WriteByte(t, value) ==
  Transfer(t, "ili9341WriteByte", value % 256, TRUE, "send", <<value % 256>>)

\* ili9341WriteChunk(chunk, length), ili9341ReadChunk(chunk, length): the bytes
\* received are those the panel sends, here zeros.
ili9341WriteChunk(t, chunk) ==
  Transfer(t, "ili9341WriteChunk", chunk, FALSE, "send", chunk)
ili9341ReadChunk(t, length) ==
  Transfer(t, "ili9341ReadChunk", length, FALSE, "receive",
           [i \in 1..length |-> 0])

\* ili9341ReadByte: its first assertion is chDbgAssert(FALSE, ...).
ili9341ReadByte(t) ==
  /\ CanCallPanel(t)
  /\ PanelPanic("ili9341ReadByte", "ili9341ReadByte()")

\* The SPI transfer in flight ends and its caller returns.
SpiDone(t) ==
  /\ Running
  /\ pc[t] = "spi"
  /\ panel' = [panel EXCEPT !.spi = SpiIdle]
  /\ pc' = [pc EXCEPT ![t] = "idle"]
  /\ UNCHANGED <<lay, useWait, drv, hw, rdymsg, hpc, fault, quiet>>

----------------------------------------------------------------------------

Next ==
  \/ HwReloadImmediate
  \/ HwReloadVblank
  \/ \E s \in {"line", "fuerr", "terr"} : HwEvent(s)
  \/ ltdcInit
  \/ \E t \in Threads, cfg \in Configs : ltdcStart(t, cfg, PanelTiming)
  \/ \E t \in Threads : ltdcStart_1(t)
  \/ \E t \in Threads : ltdcStart_2(t)
  \/ \E t \in Threads : ltdcStart_3(t)
  \/ \E t \in Threads : ltdcStop(t)
  \/ \E t \in Threads : ltdcStop_poll(t)
  \/ \E t \in Threads : ltdcStop_fin(t)
  \/ \E t \in Threads, immediately \in BOOLEAN : ltdcStartReload(t, immediately)
  \/ \E t \in Threads, immediately \in BOOLEAN : ltdcReload(t, immediately)
  \/ \E t \in Threads : ltdcReload_poll(t)
  \/ \E t \in Threads : ltdcReload_resume(t)
  \/ \E t \in Threads : ltdcEnableLineInterrupt(t)
  \/ \E t \in Threads : ltdcDisableLineInterrupt(t)
  \/ EvEnter \/ EvLine \/ EvLineClear
  \/ EvRr \/ EvRrReturn \/ EvRrLock \/ EvRrClear
  \/ ErEnter \/ ErFuerr \/ ErFuerrClear \/ ErTerr \/ ErTerrClear

Spec == Init /\ [][Next]_vars

----------------------------------------------------------------------------
(* Start over the screen sizes *)

\* The timings of the start specification: the two panels and the smallest screen.
StartTimings == Timings \cup {MinTiming}

\* ltdcInit, ltdcStart with a configuration without callbacks or with the reload
\* callback, ltdcStop, the forced reloads and the event interrupt up to the
\* critical section of its reload branch.
StartNext ==
  \/ HwReloadImmediate
  \/ ltdcInit
  \/ \E t \in Threads, cfg \in Configs, tm \in StartTimings :
       /\ ~cfg.line_isr /\ ~cfg.fuerr_isr /\ ~cfg.terr_isr
       /\ ltdcStart(t, cfg, tm)
  \/ \E t \in Threads : ltdcStart_1(t)
  \/ \E t \in Threads : ltdcStart_2(t)
  \/ \E t \in Threads : ltdcStart_3(t)
  \/ \E t \in Threads : ltdcStop(t)
  \/ \E t \in Threads : ltdcStop_poll(t)
  \/ \E t \in Threads : ltdcStop_fin(t)
  \/ EvEnter \/ EvLine
  \/ EvRr \/ EvRrReturn \/ EvRrLock

StartSpec == Init /\ [][StartNext]_vars

----------------------------------------------------------------------------
(* The started driver and its layer operations *)

\* The configurations of the layer specifications: reload callback set or not, the
\* other callbacks null.
LayConfigs == {cfg \in Configs : ~cfg.line_isr /\ ~cfg.fuerr_isr /\ ~cfg.terr_isr}

\* The driver and the controller when ltdcStart(cfg, tm) has returned after ltdcInit
\* and the layer registers regs have been written and committed, no interrupt
\* pending; Started(cfg, tm) is that state right after ltdcStart.
StartedWith(cfg, tm, regs) ==
  /\ timing = tm
  /\ active_window = StartActiveWindow(tm)
  /\ lreg = regs
  /\ live = lreg
  /\ call = NoCall
  /\ dirty = FALSE
  /\ state = "READY"
  /\ config = cfg
  /\ configured = TRUE
  /\ thread = NULL
  /\ gcr = {"LTDCEN"}
  /\ ier = StartIerFlags(cfg)
  /\ isr = {}
  /\ srcr = {}
  /\ nvic = TRUE
  /\ pc = [t \in Threads |-> "idle"]
  /\ rdymsg = [t \in Threads |-> "none"]
  /\ hpc = "none"
  /\ fault = "none"
  /\ quiet = TRUE
  /\ panel = PanelObject

Started(cfg, tm) ==
  StartedWith(cfg, tm,
              StartLayerRegs([L \in Layers |-> ResetRegs], tm, StartActiveWindow(tm)))

LayInit ==
  /\ useWait \in BOOLEAN
  /\ \E cfg \in LayConfigs, tm \in Timings : Started(cfg, tm)

\* The reload protocol of the started driver: reload requests, the controller
\* committing them, the reload-done interrupt.
ReloadNext ==
  \/ HwReloadImmediate
  \/ HwReloadVblank
  \/ \E t \in Threads, immediately \in BOOLEAN : ltdcStartReload(t, immediately)
  \/ \E t \in Threads, immediately \in BOOLEAN : ltdcReload(t, immediately)
  \/ \E t \in Threads : ltdcReload_poll(t)
  \/ \E t \in Threads : ltdcReload_resume(t)
  \/ EvEnter \/ EvLine
  \/ EvRr \/ EvRrReturn \/ EvRrLock \/ EvRrClear

\* Windows given to the window setters: the full screen of each panel, the invalid
\* window, one column too wide, one line too tall, a start beyond the stop.
Windows ==
  {[hstart |-> 0, hstop |-> 479, vstart |-> 0, vstop |-> 271],
   [hstart |-> 0, hstop |-> 319, vstart |-> 0, vstop |-> 239],
   ltdc_invalid_window,
   [hstart |-> 0, hstop |-> 480, vstart |-> 0, vstop |-> 271],
   [hstart |-> 0, hstop |-> 319, vstart |-> 0, vstop |-> 272],
   [hstart |-> 65535, hstop |-> 0, vstart |-> 0, vstop |-> 0]}

\* The blocking immediate reload alone: the request, the controller committing it,
\* the reload-done interrupt and the polling loop.
ImmediateReloadNext ==
  \/ HwReloadImmediate
  \/ \E t \in Threads : ltdcReload(t, TRUE)
  \/ \E t \in Threads : ltdcReload_poll(t)
  \/ EvEnter \/ EvLine
  \/ EvRr \/ EvRrReturn \/ EvRrLock \/ EvRrClear

WinNext ==
  \/ ImmediateReloadNext
  \/ \E t \in Threads, L \in Layers, W \in Windows : ltdcSetWindow(t, L, W)

WinSpec == LayInit /\ [][WinNext]_vars

\* Flag words given to the global flag setter: dithering with and without the
\* controller-enable flag, the latter as ltdcStart passes it.
GlobalFlagWords == {{"LTDCEN", "DTEN"}, {"DTEN"}}

\* The started driver under reloads, the global flag setter and the dithering
\* switches.
GlobalNext ==
  \/ ReloadNext
  \/ \E t \in Threads, flags \in GlobalFlagWords : ltdcGlobalSetEnableFlags(t, flags)
  \/ \E t \in Threads : ltdcEnableDithering(t)
  \/ \E t \in Threads : ltdcDisableDithering(t)

GlobalSpec == LayInit /\ [][GlobalNext]_vars

\* Windows given to the setters while every kind of reload is in flight.
ShadowWindows ==
  {[hstart |-> 0, hstop |-> 319, vstart |-> 0, vstop |-> 239],
   ltdc_invalid_window}

ShadowNext ==
  \/ ReloadNext
  \/ \E t \in Threads, L \in Layers, W \in ShadowWindows : ltdcSetWindow(t, L, W)

ShadowSpec == LayInit /\ [][ShadowNext]_vars

\* The frame buffer of the frames given to the frame setters.
FrameBuffer == <<53248, 0>>

\* A frame of the given size, pixel format and pitch.
Frame(w, h, fmt, pitch) ==
  [bufferp |-> FrameBuffer, pitch |-> pitch, width |-> w, height |-> h, fmt |-> fmt]

\* Frames given to the frame setters: a screenful in RGB565, in L8 and in AL88, one
\* with a pitch beyond 13 bits, one with a pitch below the line size, one wider
\* than either panel, one with no lines.
Frames ==
  {Frame(320, 240, LTDC_FMT_RGB565, 640),
   Frame(320, 240, LTDC_FMT_L8, 320),
   Frame(320, 240, LTDC_FMT_AL88, 640),
   Frame(320, 240, LTDC_FMT_RGB565, 70000),
   Frame(320, 240, LTDC_FMT_RGB565, 600),
   Frame(500, 240, LTDC_FMT_RGB565, 1000),
   Frame(320, 0, LTDC_FMT_RGB565, 640)}

FrameNext ==
  \/ ImmediateReloadNext
  \/ \E t \in Threads, L \in Layers, F \in Frames : ltdcSetFrame(t, L, F)

FrameSpec == LayInit /\ [][FrameNext]_vars

\* Palette lengths given to the palette setters: none, the 16 colours of a small
\* palette, the whole table, one entry too many.
PaletteLengths == {0, 16, 256, 257}

\* Palette slots given to the palette entry setters.
PaletteSlots == {0, 255}

FlagNext ==
  \/ \E t \in Threads, L \in Layers, bit \in LayerFlags : ltdcEnableFlag(t, L, bit)
  \/ \E t \in Threads, L \in Layers, bit \in LayerFlags : ltdcDisableFlag(t, L, bit)
  \/ \E t \in Threads, L \in Layers, slot \in PaletteSlots :
        ltdcSetPaletteColor(t, L, slot, PaletteColor(slot))
  \/ \E t \in Threads, L \in Layers, length \in PaletteLengths :
        ltdcSetPalette(t, L, length)

FlagSpec == LayInit /\ [][FlagNext]_vars

\* A layer specification showing a screenful in RGB565 over the whole screen of
\* the timing tm, the layer enabled.
ScreenLaycfg(tm) ==
  [frame |-> Frame(tm.screen_width, tm.screen_height, LTDC_FMT_RGB565,
                   2 * tm.screen_width),
   window |-> [hstart |-> 0, hstop |-> tm.screen_width - 1,
               vstart |-> 0, vstop |-> tm.screen_height - 1],
   def_color |-> <<4660, 22136>>, const_alpha |-> 255, key_color |-> <<18, 13398>>,
   pal_length |-> 0, blending |-> <<0, 1543>>, flags |-> {"LEN"}, null |-> FALSE]

\* An L8 screenful with a palette of 16 entries, and the flags given.
PaletteLaycfg(tm, flags) ==
  [ScreenLaycfg(tm) EXCEPT !.frame = Frame(tm.screen_width, tm.screen_height,
                                           LTDC_FMT_L8, tm.screen_width),
                           !.pal_length = 16, !.flags = flags]

\* Layer specifications given to the whole-layer setters: the null pointer, the
\* screenful, an L8 screenful with a palette and keying that leaves the layer
\* disabled, and one with a palette that enables the layer.
Laycfgs(tm) ==
  {NullLaycfg, ScreenLaycfg(tm), PaletteLaycfg(tm, {"CLUTEN", "COLKEN"}),
   PaletteLaycfg(tm, {"LEN", "CLUTEN"})}

\* The register files a layer starts the layer specification with: the one
\* ltdcStart left, the one of the screenful, and the one of the palette screenful
\* that leaves the layer disabled.
LayerFiles(L, tm) ==
  LET aw == StartActiveWindow(tm)
      r0 == DefaultLayerRegs(L, ResetRegs, tm, aw)
  IN  {r0, ltdcSetConfigI(L, r0, ScreenLaycfg(tm), tm, aw),
       ltdcSetConfigI(L, r0, PaletteLaycfg(tm, {"CLUTEN", "COLKEN"}), tm, aw)}

\* Colours, alphas, blending factors, frame addresses, pixel formats and flag words
\* given to the layer setters.
LayerColors == {LTDC_COLOR_BLACK, <<43981, 52719>>}
LayerAlphas == {0, 128}
LayerBlendings == {LTDC_BLEND_FIX1_FIX2, <<65535, 65535>>}
LayerAddresses == {<<0, 0>>, FrameBuffer}
LayerFormats == {LTDC_FMT_RGB565, LTDC_FMT_L8, LTDC_MAX_PIXFMT_ID + 1}
LayerFlagWords == {{}, {"LEN"}, LayerFlags}

LayerInit ==
  /\ useWait \in BOOLEAN
  /\ \E cfg \in LayConfigs, tm \in Timings :
       \E bg \in LayerFiles(1, tm), fg \in LayerFiles(2, tm) :
         StartedWith(cfg, tm, <<bg, fg>>)

\* One call of a layer setter on the started driver.
LayerNext ==
  \/ \E t \in Threads, L \in Layers, W \in ShadowWindows :
       call = NoCall /\ ltdcSetWindow(t, L, W)
  \/ \E t \in Threads, L \in Layers : call = NoCall /\ ltdcSetInvalidWindow(t, L)
  \/ \E t \in Threads, L \in Layers, F \in {Frame(320, 240, LTDC_FMT_L8, 320)} :
       call = NoCall /\ ltdcSetFrame(t, L, F)
  \/ \E t \in Threads, L \in Layers, a \in LayerAddresses :
       call = NoCall /\ ltdcSetFrameAddress(t, L, a)
  \/ \E t \in Threads, L \in Layers, fmt \in LayerFormats :
       call = NoCall /\ ltdcSetPixelFormat(t, L, fmt)
  \/ \E t \in Threads, L \in Layers, flags \in LayerFlagWords :
       call = NoCall /\ ltdcSetEnableFlags(t, L, flags)
  \/ \E t \in Threads, L \in Layers, bit \in LayerFlags :
       call = NoCall /\ ltdcEnableFlag(t, L, bit)
  \/ \E t \in Threads, L \in Layers, bit \in LayerFlags :
       call = NoCall /\ ltdcDisableFlag(t, L, bit)
  \/ \E t \in Threads, L \in Layers, c \in LayerColors :
       call = NoCall /\ ltdcSetKeyingColor(t, L, c)
  \/ \E t \in Threads, L \in Layers, a \in LayerAlphas :
       call = NoCall /\ ltdcSetConstantAlpha(t, L, a)
  \/ \E t \in Threads, L \in Layers, c \in LayerColors :
       call = NoCall /\ ltdcSetDefaultColor(t, L, c)
  \/ \E t \in Threads, L \in Layers, bf \in LayerBlendings :
       call = NoCall /\ ltdcSetBlendingFactors(t, L, bf)
  \/ \E t \in Threads, L \in Layers, slot \in PaletteSlots :
       call = NoCall /\ ltdcSetPaletteColor(t, L, slot, PaletteColor(slot))
  \/ \E t \in Threads, L \in Layers, length \in {16} :
       call = NoCall /\ ltdcSetPalette(t, L, length)
  \/ \E t \in Threads, L \in Layers, cfgp \in Laycfgs(timing) :
       call = NoCall /\ ltdcSetConfig(t, L, cfgp)

LayerSpec == LayerInit /\ [][LayerNext]_vars

\* Chunks given to the chunk writer and lengths given to the chunk reader.
PanelChunks == {<<>>, <<17>>, <<17, 34>>}
PanelLengths == {0, MaxChunk}

\* The panel driver alone, the display controller driver left as constructed.
PanelNext ==
  \/ \E t \in Threads : ili9341Start(t)
  \/ \E t \in Threads : ili9341Stop(t)
  \/ \E t \in Threads : ili9341Select(t)
  \/ \E t \in Threads : ili9341Unselect(t)
  \/ \E t \in Threads, cmd \in PanelBytes : ili9341WriteCommand(t, cmd)
  \/ \E t \in Threads, value \in PanelBytes : ili9341WriteByte(t, value)
  \/ \E t \in Threads : ili9341ReadByte(t)
  \/ \E t \in Threads, chunk \in PanelChunks : ili9341WriteChunk(t, chunk)
  \/ \E t \in Threads, length \in PanelLengths : ili9341ReadChunk(t, length)
  \/ \E t \in Threads : SpiDone(t)

PanelSpec == Init /\ [][PanelNext]_vars

\* Values of one 8-bit channel of the colours given to the conversions.
ChannelValues == {0, 1, 128, 248, 255}

\* ARGB-8888 colours (and raw colours) given to the conversions.
Colors ==
  {<<a * 256 + r, g * 256 + b>> : a \in ChannelValues, r \in ChannelValues,
                                  g \in ChannelValues, b \in ChannelValues}

\* Pixel format ids given to the helpers: the eight formats and one id past them.
HelperFormats == LTDC_MIN_PIXFMT_ID..(LTDC_MAX_PIXFMT_ID + 1)

\* The helpers are called on any colour and format, the driver being as constructed.
HelperInit ==
  /\ timing = NoTiming
  /\ active_window = ltdc_invalid_window
  /\ lreg = [L \in Layers |-> ResetRegs]
  /\ live = [L \in Layers |-> ResetRegs]
  /\ call \in {[op |-> "arg", color |-> c, fmt |-> f] : c \in Colors, f \in HelperFormats}
  /\ dirty = FALSE
  /\ useWait = FALSE
  /\ state = "UNINIT"
  /\ config = NoConfig
  /\ configured = FALSE
  /\ thread = NULL
  /\ gcr = {}
  /\ ier = {}
  /\ isr = {}
  /\ srcr = {}
  /\ nvic = FALSE
  /\ pc = [t \in Threads |-> "idle"]
  /\ rdymsg = [t \in Threads |-> "none"]
  /\ hpc = "none"
  /\ fault = "none"
  /\ quiet = TRUE
  /\ panel = PanelObject

HelperNext ==
  \/ \E t \in Threads : CallBitsPerPixel(t)
  \/ \E t \in Threads : CallFromARGB8888(t)
  \/ \E t \in Threads : CallToARGB8888(t)

HelperSpec == HelperInit /\ [][HelperNext]_vars

----------------------------------------------------------------------------
(* Properties *)

\* The positions of a handler at which a user callback is executing.
CallbackPcs == {"ev_line_cb", "ev_rr_cb", "er_fuerr_cb", "er_terr_cb"}

\* The edges of the documented driver state machine.
Edges == {<<"UNINIT", "STOP">>, <<"STOP", "READY">>, <<"READY", "ACTIVE">>,
          <<"ACTIVE", "READY">>, <<"READY", "STOP">>}

\* C1: every change of the driver state is one of the edges UNINIT->STOP,
\* STOP->READY, READY->ACTIVE, ACTIVE->READY, READY->STOP, with waiting compiled in
\* and without.
C1_StatePath == [][state' # state => <<state, state'>> \in Edges]_vars

\* C2: whenever the reload-done branch of the event handler executes, the driver
\* state is ACTIVE.
C2_ReloadDoneInActive ==
  hpc \in {"ev_rr_cb", "ev_rr_lock"} => state = "ACTIVE"

\* Thread t returns from ltdcReload in this step.
ReloadReturns(t) == pc[t] \in {"reload_poll", "resumed"} /\ pc'[t] = "idle"

\* C3: when reload-wait returns, for an immediate and for a vertical blanking reload,
\* with waiting compiled in and without, no reload request bit is set and the
\* driver state is READY.
C3_ReloadWaitCompletes ==
  [][\A t \in Threads :
       ReloadReturns(t) => (state' = "READY" /\ srcr' \cap {"IMR", "VBR"} = {})]_vars

\* The controller eventually commits a requested reload, a pending enabled vector is
\* eventually served, a running handler runs to its end and a thread that has been
\* made ready eventually runs.
Fairness ==
  /\ WF_vars(HwReloadImmediate) /\ WF_vars(HwReloadVblank)
  /\ SF_vars(EvEnter) /\ SF_vars(ErEnter)
  /\ WF_vars(EvLine) /\ WF_vars(EvLineClear)
  /\ WF_vars(EvRr) /\ WF_vars(EvRrReturn) /\ WF_vars(EvRrLock) /\ WF_vars(EvRrClear)
  /\ WF_vars(ErFuerr) /\ WF_vars(ErFuerrClear) /\ WF_vars(ErTerr) /\ WF_vars(ErTerrClear)
  /\ \A t \in Threads : WF_vars(ltdcReload_resume(t))

FairSpec == Spec /\ Fairness

\* The controller eventually commits a requested immediate reload, and a thread
\* that may leave the polling loop of ltdcStop eventually runs; nothing is assumed
\* of the interrupt handlers.
StopFairness ==
  /\ WF_vars(HwReloadImmediate)
  /\ \A t \in Threads : WF_vars(ltdcStop_poll(t)) /\ WF_vars(ltdcStop_fin(t))

StopFairSpec == Spec /\ StopFairness

\* Thread t has been woken from the wait slot with the success message.
Woken(t) ==
  /\ pc[t] = "resumed"
  /\ rdymsg[t] = "RDY_OK"
  /\ thread = NULL
  /\ state = "READY"

\* C4: a task that calls reload-wait(vblank) in READY parks in the wait slot with the
\* state ACTIVE, and a parked task is eventually woken with the success message, the
\* wait slot empty and the state READY.  The only runs in which it is not woken are
\* those halted by an assertion outside the reload path (a call made in the wrong
\* state, or the line branch of the handler); after a halt no handler runs.
HaltedElsewhere ==
  fault \in {"ltdcStart(), #1", "ltdcStop(), #1", "ltdcStartReloadI(), #1",
             "LTDC_EV_IRQHandler(), #1"}

C5_CallbackBeforeReady ==
  hpc = "ev_rr_cb"
    => (state = "ACTIVE" /\ \A t \in Threads : pc[t] = "parked" => thread = t)

\* C6: a reload-wait call made while a task is parked in the wait slot is rejected by
\* an assertion, and the wait slot is never overwritten: it changes only by being
\* emptied when its task is woken.
C6_OneWaiter ==
  [][thread # NULL =>
       /\ \A t \in Threads :
            (pc[t] = "idle" /\ pc'[t] # "idle")
              => (pc'[t] \in {"halt_ltdcStart", "halt_ltdcStop", "halt_ltdcStartReload",
                              "halt_ltdcReload"} /\ fault' # "none")
       /\ thread' \in {thread, NULL}
       /\ thread' = NULL => (pc[thread] = "parked" /\ pc'[thread] = "resumed")]_vars

C6_Witness ==
  /\ thread # NULL
  /\ pc[thread] = "parked"
  /\ \E t \in Threads : pc[t] = "halt_ltdcReload"
  /\ fault = "ltdcStartReloadI(), #1"

\* Thread t returns from ltdcStart, from ltdcStop, in this step.
StartReturns(t) == pc[t] = "start_3" /\ pc'[t] = "idle"
StopReturns(t) == pc[t] \in {"stop_poll", "stop_fin"} /\ pc'[t] = "idle"

\* C7: init leaves the driver in STOP; start, called in STOP, returns with state READY
\* and the controller-enable bit set; stop, called in READY, returns with state STOP,
\* the controller-enable bit clear and every interrupt source disabled.
C7_StartStopCycle ==
  [][/\ state = "UNINIT" /\ state' # state => state' = "STOP"
     /\ \A t \in Threads :
          /\ (pc[t] = "idle" /\ pc'[t] = "start_1") => state = "STOP"
          /\ StartReturns(t) => (state' = "READY" /\ "LTDCEN" \in gcr')
          /\ (pc[t] = "idle" /\ pc'[t] = "stop_poll") => state = "READY"
          /\ StopReturns(t) => (state' = "STOP" /\ "LTDCEN" \notin gcr' /\ ier' = {})]_vars

C7_Witness ==
  /\ state = "STOP"
  /\ configured
  /\ \A t \in Threads : pc[t] = "idle"
  /\ gcr = {} /\ ier = {}
  /\ fault = "none"

\* C8: while the application has requested no reload and the controller has raised no
\* line, underrun or transfer-error event, no interrupt callback is running.
C8_NoCallbackInCycle == quiet => hpc \notin CallbackPcs

\* C9: when start returns, the interrupt-enable mask contains reload-done, and line,
\* FIFO-underrun and transfer-error exactly when the callback of the configuration
\* is non-null.
C9_StartIerMask ==
  [][\A t \in Threads :
       StartReturns(t)
         => /\ "rr" \in ier'
            /\ "line" \in ier' <=> config'.line_isr
            /\ "fuerr" \in ier' <=> config'.fuerr_isr
            /\ "terr" \in ier' <=> config'.terr_isr]_vars

C9_Witness ==
  /\ state = "READY"
  /\ \A t \in Threads : pc[t] = "idle"
  /\ fault = "none"
  /\ ~config.line_isr /\ config.fuerr_isr /\ ~config.terr_isr
  /\ ier = {"rr", "fuerr"}

\* C10: once the driver is started, a line, FIFO-underrun or transfer-error source
\* whose callback is null in the current configuration is masked in IER.
C10_NullCallbackMasked ==
  state \in {"READY", "ACTIVE"}
    => \A s \in {"line", "fuerr", "terr"} : ~HasCallback(s) => s \notin ier

\* The labels of the state assertions of start, stop, start-reload and reload-wait.
StateAssertions == {"ltdcStart(), #1", "ltdcStop(), #1", "ltdcStartReloadI(), #1"}

\* C11: start called in a state other than STOP, stop called in a state other than
\* READY, start-reload and reload-wait called in a state other than READY fail their
\* state assertion, and the failing call has changed neither the driver state, nor
\* the stored configuration, nor any controller register.
C11_PreconditionRejected ==
  [][/\ (fault = "none" /\ fault' \in StateAssertions)
          => UNCHANGED <<state, config, configured, thread, gcr, ier, isr, srcr, nvic>>
     /\ \A t \in Threads :
          /\ (pc[t] = "idle" /\ pc'[t] \in {"start_1", "halt_ltdcStart"})
                => (state # "STOP" <=> fault' = "ltdcStart(), #1")
          /\ (pc[t] = "idle" /\ pc'[t] \in {"stop_poll", "halt_ltdcStop"})
                => (state # "READY" <=> fault' = "ltdcStop(), #1")
          /\ (pc[t] = "idle"
               /\ pc'[t] \in {"reload_poll", "parked", "halt_ltdcReload",
                               "halt_ltdcStartReload"})
                => (state # "READY" <=> fault' = "ltdcStartReloadI(), #1")
     /\ (state # "ACTIVE" /\ state' = "ACTIVE") => state = "READY"]_vars

C11_Witness ==
  /\ fault = "ltdcStart(), #1"
  /\ state = "READY"
  /\ \E t \in Threads : pc[t] = "halt_ltdcStart"

\* C12: whenever the driver is ACTIVE, with no call and no handler in progress, a
\* reload request bit is still set or the reload-done flag is raised, so that the
\* started reload is still going to bring the state back to READY.
C12_ActiveReloadCompletes ==
  (state = "ACTIVE" /\ fault = "none" /\ hpc = "none"
     /\ \A t \in Threads : pc[t] = "idle")
    => (ltdcIsReloadingI \/ "rr" \in isr)

----------------------------------------------------------------------------
(* Shadow registers *)

\* The layer registers as ltdcStart leaves them.
StartedRegs == StartLayerRegs([L \in Layers |-> ResetRegs], timing, active_window)

----------------------------------------------------------------------------
(* Active window *)

\* C14: once ltdcStart has returned, the cached active window is
\* hstart = hsw + hbp, hstop = hsw + hbp + w - 1, vstart = vsw + vbp,
\* vstop = vsw + vbp + h - 1; for hsw = 41, hbp = 2, w = 480, vsw = 10, vbp = 2,
\* h = 272 it is (hstart = 43, vstart = 12, hstop = 522, vstop = 283).
C14_ActiveWindow ==
  state \in {"READY", "ACTIVE"} =>
    /\ active_window =
         [hstart |-> timing.hsync_width + timing.hbp_width,
          vstart |-> timing.vsync_height + timing.vbp_height,
          hstop  |-> timing.hsync_width + timing.hbp_width + timing.screen_width - 1,
          vstop  |-> timing.vsync_height + timing.vbp_height + timing.screen_height - 1]
    /\ (timing = PanelTiming =>
          active_window = [hstart |-> 43, vstart |-> 12, hstop |-> 522, vstop |-> 283])

\* ltdcStart has returned for the panel of the example.
C14_Witness ==
  /\ state = "READY"
  /\ fault = "none"
  /\ timing = PanelTiming
  /\ timing.hsync_width = 41 /\ timing.hbp_width = 2 /\ timing.screen_width = 480
  /\ timing.vsync_height = 10 /\ timing.vbp_height = 2 /\ timing.screen_height = 272
  /\ \A t \in Threads : pc[t] = "idle"

----------------------------------------------------------------------------
(* Layer window *)

\* The last layer call was an accepted window setter and a reload requested after it
\* has been committed.
WindowReloaded ==
  /\ call.op = "ltdcSetWindow"
  /\ fault = "none"
  /\ ~dirty
  /\ ~ltdcIsReloadingI
  /\ live = lreg

\* Window W placed relative to the origin of the active window aw.
Translated(W, aw) ==
  [hstart |-> W.hstart + aw.hstart,
   hstop  |-> W.hstop + aw.hstart,
   vstart |-> W.vstart + aw.vstart,
   vstop  |-> W.vstop + aw.vstart]

\* C15: for either layer and any window W the window setter accepts, the window
\* read back by the window getter after a completed reload is W with the active
\* window's hstart added to its horizontal coordinates and the active window's
\* vstart added to its vertical ones.
C15_WindowRoundTrip ==
  WindowReloaded =>
    ltdcGetWindowI(lreg[call.layer]) = Translated(call.window, active_window)

\* The conditions on a window W the window setters are said to enforce, for timing
\* tm and active window aw.
WindowInRange(W, tm, aw) ==
  /\ W.hstop < tm.screen_width
  /\ W.vstop < tm.screen_height
  /\ W.hstart + aw.hstart >= aw.hstart
  /\ W.hstop + aw.hstart <= aw.hstop
  /\ W.vstart + aw.vstart >= aw.vstart
  /\ W.vstop + aw.vstart <= aw.vstop

\* C16: every window the window setter of either layer accepts has
\* hstop < screen_width and vstop < screen_height, and the absolute coordinates
\* written to the window position registers have start >= active window start and
\* stop <= active window stop on both axes; a window violating any of these
\* conditions fails an assertion.
C16_WindowWithinActive ==
  call.op = "ltdcSetWindow" =>
    LET written == ltdcGetWindowI(lreg[call.layer])
    IN  /\ fault = "none" =>
             /\ call.window.hstop < timing.screen_width
             /\ call.window.vstop < timing.screen_height
             /\ written.hstart >= active_window.hstart
             /\ written.hstop <= active_window.hstop
             /\ written.vstart >= active_window.vstart
             /\ written.vstop <= active_window.vstop
        /\ ~WindowInRange(call.window, timing, active_window) => fault # "none"

----------------------------------------------------------------------------
(* Layer frame *)

\* The conditions on a frame F the frame setters are said to enforce, for timing tm;
\* the bytes per pixel are those of the table of bits per pixel.
FrameInRange(F, tm) ==
  LET linesize == ((ltdc_bpp[F.fmt + 1] + 7) \div 8) * F.width
  IN  /\ F.width <= tm.screen_width
      /\ F.height <= tm.screen_height
      /\ linesize >= LTDC_MIN_FRAME_WIDTH_BYTES
      /\ linesize <= LTDC_MAX_FRAME_WIDTH_BYTES
      /\ F.height >= LTDC_MIN_FRAME_HEIGHT_LINES
      /\ F.height <= LTDC_MAX_FRAME_HEIGHT_LINES
      /\ F.pitch >= linesize

\* C17: the frame setter of either layer accepts a frame exactly when
\* width <= screen_width, height <= screen_height, the line size (bytes per pixel
\* of the format times width) lies within the minimum and maximum line bytes, the
\* height lies within the minimum and maximum line counts and pitch >= line size;
\* any other frame fails an assertion.
C17_FrameAcceptedIffInRange ==
  [][(call' # call /\ call'.op = "ltdcSetFrame") =>
       (fault' = "none" <=> FrameInRange(call'.frame, timing))]_vars

\* The descriptors a caller may pass to the frame getter: the getter does not
\* store every field, so the pixel format the caller's memory held matters.
GetFrameOutputs ==
  {[ltdc_invalid_frame EXCEPT !.fmt = f] : f \in LTDC_MIN_PIXFMT_ID..LTDC_MAX_PIXFMT_ID}

\* The last layer call was an accepted frame setter and a reload requested after it
\* has been committed.
FrameReloaded ==
  /\ call.op = "ltdcSetFrame"
  /\ fault = "none"
  /\ ~dirty
  /\ ~ltdcIsReloadingI
  /\ live = lreg

\* C18: for either layer and every frame F the frame setter accepts, the frame
\* getter returns after a completed reload a descriptor whose address, pitch,
\* width, height and pixel format equal those of F.
C18_FrameRoundTrip ==
  FrameReloaded =>
    \A out \in GetFrameOutputs :
      ltdcGetFrameI(lreg[call.layer], out) = call.frame

----------------------------------------------------------------------------
(* Layer enable flags and palette *)

\* A call of a palette setter with a palette that fits the table.
PaletteCall(c) ==
  \/ c.op = "ltdcSetPaletteColor"
  \/ c.op = "ltdcSetPalette" /\ c.length <= LTDC_MAX_PALETTE_LENGTH

\* C19: the palette setter and the palette entry setter of a layer succeed when the
\* layer enable bit of that layer is clear and fail their must-be-disabled
\* assertion when it is set, whatever the CLUT enable and colour keying enable
\* bits are.
C19_PaletteNeedsDisabledLayer ==
  [][(call' # call /\ PaletteCall(call')) =>
       (fault' = "none" <=> "LEN" \notin lreg[call'.layer].CR)]_vars

\* C20: for either layer, the three enable predicates return true exactly when the
\* layer enable, the CLUT enable, respectively the colour keying enable bit of the
\* layer's control register is set, whatever the other bits are.
C20_PredicatesReportOneBit ==
  \A L \in Layers :
    /\ ltdcIsEnabledI(lreg[L]) <=> "LEN" \in lreg[L].CR
    /\ ltdcIsPaletteEnabledI(lreg[L]) <=> "CLUTEN" \in lreg[L].CR
    /\ ltdcIsKeyingEnabledI(lreg[L]) <=> "COLKEN" \in lreg[L].CR

----------------------------------------------------------------------------
(* Helpers *)

\* C21: ltdcBitsPerPixel returns 32, 24, 16, 16, 16, 8, 8, 16 for the format ids
\* 0..7 and is accepted for every format id within 0..7.
C21_BitsPerPixelTable ==
  (call.op = "ltdcBitsPerPixel" /\ call.fmt \in 0..7) =>
    /\ fault = "none"
    /\ call.result = <<32, 24, 16, 16, 16, 8, 8, 16>>[call.fmt + 1]

\* The channels of an ARGB-8888 colour, and the channels each pixel format carries
\* (the luminance of L8, AL44 and AL88 is the lowest byte).
Channel(c, ch) ==
  CASE ch = "A" -> c[1] \div 256
    [] ch = "R" -> c[1] % 256
    [] ch = "G" -> c[2] \div 256
    [] ch = "B" -> c[2] % 256
Carried(fmt) ==
  CASE fmt \in {LTDC_FMT_ARGB8888, LTDC_FMT_ARGB1555, LTDC_FMT_ARGB4444} ->
         {"A", "R", "G", "B"}
    [] fmt \in {LTDC_FMT_RGB888, LTDC_FMT_RGB565} -> {"R", "G", "B"}
    [] fmt = LTDC_FMT_L8 -> {"B"}
    [] fmt \in {LTDC_FMT_AL44, LTDC_FMT_AL88} -> {"A", "B"}

\* C22: for each of the eight formats F and every ARGB-8888 colour c, every channel
\* that F carries and that is 0xFF in c is 0xFF in
\* ltdcToARGB8888(ltdcFromARGB8888(c, F), F); ltdcFromARGB8888(0xFF00FF00, RGB565)
\* is 0x07E0 and ltdcToARGB8888(0x07E0, RGB565) is 0xFF00FF00.
C22_SaturationPreserved ==
  /\ (call.op = "ltdcFromARGB8888" /\ fault = "none") =>
        /\ \A ch \in Carried(call.fmt) :
              Channel(call.color, ch) = 255 =>
                Channel(ltdcToARGB8888(call.result, call.fmt), ch) = 255
        /\ (call.color = <<65280, 65280>> /\ call.fmt = LTDC_FMT_RGB565) =>
              call.result = <<0, 2016>>
  /\ (call.op = "ltdcToARGB8888" /\ call.color = <<0, 2016>>
        /\ call.fmt = LTDC_FMT_RGB565) =>
        call.result = <<65280, 65280>>

\* The green of the example has gone through both conversions.
C22_Witness ==
  /\ call.op = "ltdcToARGB8888"
  /\ call.color = <<0, 2016>>
  /\ call.fmt = LTDC_FMT_RGB565
  /\ call.result = <<65280, 65280>>
  /\ fault = "none"

\* C23: a whole-layer write with a null descriptor is accepted under every valid
\* configuration, from within ltdcStart too: ltdcStart never halts on an assertion
\* of the layer setters while it loads the default specification, and the layers
\* it has loaded have their enable flags clear, constant alpha 0, a black default
\* colour, the window registers of the sentinel window and the frame registers of
\* the sentinel frame.
DefaultLoaded(r, tm, aw) ==
  /\ r.CR = {}
  /\ And32(r.CACR, LTDC_LxCACR_CONSTA) = <<0, 0>>
  /\ And32(r.DCCR, <<255, 65535>>) = <<0, 0>>
  /\ r.WHPCR = WindowWHPCR(ltdc_invalid_window, aw)
  /\ r.WVPCR = WindowWVPCR(ltdc_invalid_window, aw)
  /\ r.CFBAR = ltdc_invalid_frame.bufferp
  /\ And32(r.CFBLNR, LTDC_LxCFBLNR_CFBLNBR) = Word(ltdc_invalid_frame.height)
  /\ ltdcGetPixelFormatI(r) = ltdc_invalid_frame.fmt
C24_InvalidWindowOnePixel ==
  (call.op = "ltdcSetInvalidWindow" /\ fault = "none") =>
    LET r == lreg[call.layer]
    IN  /\ And32(r.WHPCR, LTDC_LxWHPCR_WHSTPOS) = Word(active_window.hstart)
        /\ And32(r.WHPCR, LTDC_LxWHPCR_WHSPPOS) = Shl16(active_window.hstart)
        /\ And32(r.WVPCR, LTDC_LxWVPCR_WVSTPOS) = Word(active_window.vstart)
        /\ And32(r.WVPCR, LTDC_LxWVPCR_WVSPPOS) = Shl16(active_window.vstart)

PanelEdges ==
  {<<"STOP", "READY", "ili9341Start">>, <<"READY", "ACTIVE", "ili9341Select">>,
   <<"ACTIVE", "READY", "ili9341Unselect">>, <<"READY", "STOP", "ili9341Stop">>}
C26_PanelStateMachine ==
  /\ [][panel'.state # panel.state =>
          <<panel.state, panel'.state, panel'.call.op>> \in PanelEdges]_vars
  /\ [](\A e \in PanelEdges :
          (panel.call.op = e[3] /\ panel.call.from # e[1]) =>
            /\ fault \in {"ili9341Start(), #1", "ili9341SelectI(), #1",
                          "ili9341UnselectI(), #1"}
            /\ panel.state = panel.call.from)

\* The panel driver is back in STOP after a session in which a byte was moved.
C26_Witness ==
  /\ fault = "none"
  /\ panel.state = "STOP"
  /\ panel.call.op = "ili9341Stop"
  /\ panel.call.from = "READY"
  /\ panel.dcx = "high"

\* C27: write-command, write-byte, write-chunk and read-chunk called in state STOP
\* or READY fail their state assertion before the D/CX line is driven and before
\* any SPI transfer is started.
PanelTransferOps ==
  {"ili9341WriteCommand", "ili9341WriteByte", "ili9341WriteChunk", "ili9341ReadChunk"}
C27_TransfersNeedActive ==
  [][(/\ panel'.call # panel.call
      /\ panel'.call.op \in PanelTransferOps
      /\ panel.state \in {"STOP", "READY"}) =>
       /\ fault' = panel'.call.op \o "(), #1"
       /\ panel'.dcx = panel.dcx
       /\ panel'.value = panel.value
       /\ panel'.spi = SpiIdle
       /\ pc' = pc]_vars

\* A chunk write is rejected in READY, after a session that left the D/CX line low.
C27_Witness ==
  /\ fault = "ili9341WriteChunk(), #1"
  /\ panel.state = "READY"
  /\ panel.call.arg = <<17, 34>>
  /\ panel.dcx = "low"
  /\ panel.spi = SpiIdle

\* C28: while an SPI transfer of the panel driver is in flight, the D/CX line has
\* had the level of the phase since the transfer started: low for the one byte of
\* write-command, high for write-byte, write-chunk and read-chunk; write-command and
\* write-byte move exactly one byte, equal to their argument, the chunk operations
\* the bytes or the length they were given.
C28_CommandFraming ==
  panel.spi.dir # "idle" =>
    LET c == panel.call
        x == panel.spi
    IN  /\ c.op \in PanelTransferOps
        /\ c.from = "ACTIVE"
        /\ x.dcx = panel.dcx
        /\ c.op = "ili9341WriteCommand" =>
             x.dcx = "low" /\ x.dir = "send" /\ x.n = 1 /\ x.data = <<c.arg>>
        /\ c.op = "ili9341WriteByte" =>
             x.dcx = "high" /\ x.dir = "send" /\ x.n = 1 /\ x.data = <<c.arg>>
        /\ c.op = "ili9341WriteChunk" =>
             x.dcx = "high" /\ x.dir = "send" /\ x.n = Len(c.arg) /\ x.data = c.arg
        /\ c.op = "ili9341ReadChunk" =>
             x.dcx = "high" /\ x.dir = "receive" /\ x.n = c.arg

\* The command byte 42 is on the wire with the D/CX line low.
C28_Witness ==
  /\ panel.spi.dir = "send"
  /\ panel.call.op = "ili9341WriteCommand"
  /\ panel.spi.data = <<42>>
  /\ panel.value = 42
  /\ panel.dcx = "low"
  /\ panel.cs

\* C29: a task parked by a reload-wait for the vertical blanking is made ready in
\* the very step, one critical section of the reload-done handler, in which the
\* state goes from ACTIVE to READY and the wait slot is emptied; from then until
\* the task has returned from the wait the state is READY, so the woken task is
\* never seen with the state still ACTIVE.
C29_ResumedInReady ==
  /\ [][\A t \in Threads :
          (pc[t] # "resumed" /\ pc'[t] = "resumed") =>
            /\ pc[t] = "parked"
            /\ hpc = "ev_rr_lock"
            /\ thread = t /\ thread' = NULL
            /\ state = "ACTIVE" /\ state' = "READY"
            /\ rdymsg'[t] = "RDY_OK"]_vars
  /\ [](\A t \in Threads : pc[t] = "resumed" => state = "READY")

\* The parked task has been made ready and the handler has not cleared the
\* reload-done flag yet.
C29_Witness ==
  /\ fault = "none"
  /\ hpc = "ev_rr_clr"
  /\ state = "READY"
  /\ thread = NULL
  /\ \E t \in Threads : pc[t] = "resumed" /\ rdymsg[t] = "RDY_OK"

\* The positions of a handler for the source s: at the test of its branch, inside
\* its callback, and right before its flag is cleared.
TestPc(s) ==
  CASE s = "line" -> "ev_line" [] s = "rr" -> "ev_rr"
    [] s = "fuerr" -> "er_fuerr" [] s = "terr" -> "er_terr"
CallbackPc(s) == TestPc(s) \o "_cb"
ClearPc(s) == IF s = "rr" THEN "ev_rr_clr" ELSE CallbackPc(s)

\* C30: a handler enters the callback of a source (line, reload-done, FIFO
\* underrun, transfer error) only from the test of that source's branch with the
\* status flag and the enable bit both set, and both stay set during the callback;
\* a status flag is cleared only by the handler, after the callback of the source
\* has returned (for reload-done: after the critical section that follows the
\* callback, if there is one); a branch whose flag or enable bit is clear is left
\* without callback, without halt and without any flag cleared.
C30_InterruptDispatch ==
  /\ [][\A s \in Sources :
          /\ (hpc # CallbackPc(s) /\ hpc' = CallbackPc(s)) =>
               (hpc = TestPc(s) /\ s \in isr /\ s \in ier /\ HasCallback(s))
          /\ (s \in isr /\ s \notin isr') =>
               (hpc = ClearPc(s) /\ hpc' # hpc /\ s \in ier /\ isr' = isr \ {s})
          /\ (hpc = TestPc(s) /\ hpc' # hpc /\ ~(s \in isr /\ s \in ier)) =>
               /\ hpc' \notin {CallbackPc(s), "ev_rr_lock", ClearPc(s)}
               /\ isr' = isr
               /\ fault' = fault]_vars
  /\ [][(hpc' # hpc /\ hpc' = "ev_rr_lock") =>
          \/ hpc = "ev_rr_cb"
          \/ hpc = "ev_rr" /\ ~HasCallback("rr") /\ "rr" \in isr /\ "rr" \in ier]_vars
  /\ [][(hpc' # hpc /\ hpc' = "ev_rr_clr") => hpc = "ev_rr_lock"]_vars
  /\ [](\A s \in Sources : hpc = CallbackPc(s) => (s \in isr /\ s \in ier))

\* The error handler has run the FIFO-underrun callback and cleared the flag, and
\* finds the transfer-error flag clear.
C30_Witness ==
  /\ fault = "none"
  /\ hpc = "er_terr"
  /\ config.fuerr_isr
  /\ "fuerr" \in ier
  /\ isr \cap {"fuerr", "terr"} = {}

\* C31: while ltdcStart is before the end of its first forced reload, that is
\* before the timings and the layers are programmed, every interrupt source is
\* disabled, and the sources are enabled in the step that has programmed both
\* layers; the controller-enable bit is clear until the forced reload that commits
\* timings and layers has completed and is set in the step that follows its
\* completion; the driver state is STOP until the last forced reload has completed.
C31_StartOrdering ==
  /\ [](\A t \in Threads :
          /\ pc[t] = "start_1" => (ier = {} /\ "LTDCEN" \notin gcr /\ state = "STOP")
          /\ pc[t] = "start_2" => ("LTDCEN" \notin gcr /\ state = "STOP")
          /\ pc[t] = "start_3" => state = "STOP")
  /\ [][\A t \in Threads :
          /\ (pc[t] = "start_1" /\ ier' # ier) =>
               /\ pc'[t] = "start_2"
               /\ lreg' = StartLayerRegs(lreg, timing, active_window')
               /\ "LTDCEN" \notin gcr'
          /\ (pc[t] \in {"start_1", "start_2", "start_3"}
                /\ "LTDCEN" \notin gcr /\ "LTDCEN" \in gcr') =>
               (pc[t] = "start_2" /\ pc'[t] = "start_3" /\ ~ltdcIsReloadingI
                /\ live = lreg)
          /\ (pc[t] \in {"start_1", "start_2", "start_3"} /\ state' # state) =>
               (pc[t] = "start_3" /\ pc'[t] = "idle" /\ ~ltdcIsReloadingI
                /\ state' = "READY")]_vars

\* ltdcStart has turned the controller on and waits for its last forced reload.
C31_Witness ==
  /\ fault = "none"
  /\ state = "STOP"
  /\ "LTDCEN" \in gcr
  /\ "rr" \in ier
  /\ "IMR" \in srcr
  /\ \E t \in Threads : pc[t] = "start_3"

\* C32: a whole-layer write with a descriptor that carries a palette is accepted
\* on a layer that is disabled (LEN clear) before the call, whatever the flags of
\* the descriptor, the palette being written before the flags: when the frame and
\* the window of the descriptor pass their checks, no assertion fails, the palette
\* is written and CR then holds the flags of the descriptor.
C32_PaletteBeforeFlags ==
  [][(/\ call' # call
      /\ call'.op = "ltdcSetConfig"
      /\ ~call'.cfgp.null
      /\ call'.cfgp.pal_length \in 1..LTDC_MAX_PALETTE_LENGTH
      /\ "LEN" \notin lreg[call'.layer].CR
      /\ SetFrameFault(call'.layer, call'.cfgp.frame, timing) = "none"
      /\ SetWindowFault(call'.layer, call'.cfgp.window, timing, active_window)
           = "none") =>
       /\ fault' = "none"
       /\ lreg'[call'.layer].CR = call'.cfgp.flags
       /\ lreg'[call'.layer].CLUTWR
            = ClutWord(call'.cfgp.pal_length - 1,
                       PaletteColor(call'.cfgp.pal_length - 1))]_vars

\* C33: outside a critical section a non-empty wait slot implies that the state is
\* ACTIVE and that a vertical blanking reload is pending or the reload-done flag
\* is raised; hence the slot is empty whenever the state is UNINIT, STOP or READY.
C33_WaitSlot ==
  ~Locked =>
    /\ thread # NULL =>
         /\ state = "ACTIVE"
         /\ "VBR" \in srcr \/ "rr" \in isr
    /\ state \in {"UNINIT", "STOP", "READY"} => thread = NULL

\* A task sleeps in the wait slot, the reload has been committed and the handler
\* has not run yet.
C33_Witness ==
  /\ fault = "none"
  /\ thread # NULL
  /\ pc[thread] = "parked"
  /\ "VBR" \notin srcr
  /\ "rr" \in isr
  /\ hpc = "none"

\* The labels of the assertions of the window setter of layer L that compare the
\* absolute coordinates with the active window.
AbsoluteWindowLabels(L) ==
  {"ltdc" \o LayerName(L) \o "SetWindowI(), #" \o n : n \in {"21", "22", "31", "32"}}

\* C34: once started, the active window spans exactly the screen
\* (hstop - hstart + 1 = screen_width, vstop - vstart + 1 = screen_height); hence
\* no call of a window setter fails an assertion on the absolute coordinates: a
\* window that passes hstop < screen_width and vstop < screen_height is accepted,
\* whatever its 16-bit start coordinates.
C34_ActiveWindowSpansScreen ==
  /\ [](state \in {"READY", "ACTIVE"} =>
          /\ active_window.hstop - active_window.hstart + 1 = timing.screen_width
          /\ active_window.vstop - active_window.vstart + 1 = timing.screen_height)
  /\ [][(call' # call /\ call'.op = "ltdcSetWindow") =>
          /\ fault' \notin AbsoluteWindowLabels(call'.layer)
          /\ (call'.window.hstop < timing.screen_width
                /\ call'.window.vstop < timing.screen_height) => fault' = "none"]_vars

\* A window setter has accepted a window whose horizontal start is the largest
\* 16-bit value.
C34_Witness ==
  /\ call.op = "ltdcSetWindow"
  /\ call.window.hstart = 65535
  /\ call.window.hstop < timing.screen_width
  /\ fault = "none"
  /\ lreg[call.layer].WHPCR = WindowWHPCR(call.window, active_window)

\* C35: every window a window setter writes to the window position registers is
\* well formed: whenever a call of the setter writes WHPCR, the horizontal start it
\* holds does not exceed the horizontal stop and equals the relative start plus the
\* active window's start, untruncated; likewise for WVPCR and the vertical
\* coordinates.
C35_WrittenWindowWellFormed ==
  [][(call' # call /\ call'.op = "ltdcSetWindow") =>
       LET L == call'.layer
           W == call'.window
           written == ltdcGetWindowI(lreg'[L])
       IN  /\ lreg'[L].WHPCR # lreg[L].WHPCR =>
                /\ written.hstart <= written.hstop
                /\ written.hstart = W.hstart + active_window.hstart
           /\ lreg'[L].WVPCR # lreg[L].WVPCR =>
                /\ written.vstart <= written.vstop
                /\ written.vstart = W.vstart + active_window.vstart]_vars

\* C36: a call of a frame setter that fails one of its geometry assertions (#1 to
\* #7 of the frame setter) leaves every register of the layer as it was, the pixel
\* format register included.
C36_FailedFrameWritesNothing ==
  [][(/\ call' # call
      /\ call'.op = "ltdcSetFrame"
      /\ fault' \in {"ltdc" \o LayerName(call'.layer) \o "SetFrameI(), #" \o n :
                       n \in {"1", "2", "3", "4", "5", "6", "7"}}) =>
       lreg'[call'.layer] = lreg[call'.layer]]_vars

\* C37: in every reachable state in which the driver state is READY or ACTIVE the
\* controller-enable bit of GCR is set, whatever public operations have been
\* called, the global flag setter and the dithering switches included.
C37_EnabledWhileStarted ==
  state \in {"READY", "ACTIVE"} => "LTDCEN" \in gcr

\* Thread t is inside ltdcStop, past its state assertion.
InStop(t) == pc[t] \in {"stop_poll", "stop_fin"}

\* C38: ltdcStop always terminates.  Called in READY it fails no assertion, masks
\* every interrupt source and requests an immediate reload; until it returns the
\* caller is never put in the wait slot and no interrupt handler runs; and, given
\* only that the controller eventually clears the immediate-reload bit, it returns
\* with the state STOP.
C38_StopTerminates ==
  /\ [][\A t \in Threads :
          /\ (pc[t] = "idle" /\ pc'[t] = "halt_ltdcStop") => state # "READY"
          /\ (pc[t] = "idle" /\ InStop(t)') =>
                (state = "READY" /\ ier' = {} /\ "IMR" \in srcr' /\ thread' = NULL)
          /\ InStop(t) =>
                /\ thread' = NULL
                /\ hpc' = "none"
                /\ fault' = "none"
                /\ InStop(t)' \/ (pc'[t] = "idle" /\ state' = "STOP")]_vars
  /\ \A t \in Threads : InStop(t) ~> (pc[t] = "idle" /\ state = "STOP")

\* C39: the chip select line follows the panel driver state: the slave select line
\* of the SPI endpoint is asserted exactly when the state is ACTIVE; and
\* ili9341Start, when it returns, has pulsed the line (asserted, then deasserted
\* it) and leaves it deasserted with the state READY.
C39_ChipSelectFollowsState ==
  /\ [](panel.cs <=> panel.state = "ACTIVE")
  /\ [][(panel'.call # panel.call /\ panel'.call.op = "ili9341Start"
           /\ fault' = "none") =>
          /\ panel'.cslog = <<TRUE, FALSE>>
          /\ ~panel'.cs
          /\ panel'.state = "READY"]_vars

\* The panel has been started, selected, written to and unselected again.
C39_Witness ==
  /\ fault = "none"
  /\ panel.call.op = "ili9341Unselect"
  /\ panel.call.from = "ACTIVE"
  /\ panel.state = "READY"
  /\ ~panel.cs
  /\ panel.cslog = <<FALSE>>
  /\ panel.dcx = "high"

====
